---- MODULE Spec2Model ----
(***************************************************************************)
(* Asset server: HTTP intake -> durable queue -> worker pipeline -> log    *)
(* store.  The model follows src/src/controllers/assetController.ts        *)
(* (intake), src/src/models/Log.ts lines 58-329 (standalone worker),       *)
(* src/src/utils/logService.ts lines 1-95 (event logger),                  *)
(* src/src/utils/getAssetType.ts, src/src/utils/public-asset-exists.ts     *)
(* and the executors in src/unnamed/part_000.                              *)
(*                                                                         *)
(* The consumer callback of startWorker is asynchronous and the channel    *)
(* has no prefetch limit, so several deliveries can be in flight; every    *)
(* await of processMessage is a point where another delivery or an intake  *)
(* request may take a step.  A pipeline step and the logEvent calls that   *)
(* follow it in the same try block form one action: each append is a       *)
(* single atomic updateOne on the job's own entry.                         *)
(*                                                                         *)
(* Spec runs the whole system with every input and with store failures    *)
(* over MaxMessages messages.  SpecConc runs ConcMessages messages, whose  *)
(* deliveries interleave, over fewer inputs and a store that does not      *)
(* fail.  SpecExec runs MaxMessages messages with crop, trim and           *)
(* compression options against every probe and codec outcome, the other   *)
(* steps succeeding.  SpecIntake sends request bodies with extra fields    *)
(* and follows the image job they publish.  SpecLog calls the event        *)
(* logger directly, one call after the other.  SpecConnect runs calls of  *)
(* connectRabbitMQ (src/src/routes/assetRoutes.ts lines 39-54) that        *)
(* overlap within one process.  SpecIndex runs the orchestrator of the    *)
(* combined server (src/src/models/Log.ts lines 353-566) on the inputs    *)
(* of Spec.                                                                *)
(***************************************************************************)
EXTENDS Integers, Sequences, FiniteSets, TLC

VARIABLES
    queue,      \* messages published to PROCESSING_QUEUE and not yet delivered
    jobs,       \* deliveries in flight, and settled ones until the next delivery
    docs,       \* the Log collection: a sequence of Log Documents
    faults,     \* store operations that have failed so far
    response,   \* the latest HTTP response of the intake endpoint
    published,  \* messages handed to the queue so far
    delivered,  \* invocations of the consumer callback so far
    lastOp,     \* the latest direct call on the event logger (SpecLog)
    files,      \* paths present on the local disk of the worker
    clock,      \* the millisecond Date.now() returns
    rabbit      \* config/queue: connection, channel and the calls under way

vars == <<queue, jobs, docs, faults, response, published, delivered, lastOp,
          files, clock, rabbit>>

----------------------------------------------------------------------------
(* Bounds of the model *)

MaxMessages == 1
MaxFaults == 1
ConcMessages == 2
MaxLogCalls == 3
MaxClock == 2
MaxConnections == 3

----------------------------------------------------------------------------
(* Values *)

Undefined == "undefined"
EmptyString == ""

URLs == {"u1", "u2"}
Sources == {"cms"}
BagNames == {"imageProps", "videoProps", "pdfProps"}

\* cropParams and trimParams of an option bag; given = the key is set
NoCrop == [given |-> FALSE, x |-> 0, y |-> 0, width |-> 0, height |-> 0]
NoTrim == [given |-> FALSE, start |-> 0, end |-> 0]

\* assetConfig as carried by the message: present = the key holds an object,
\* bags = the option bags it owns, compress = the bags whose compress flag
\* (compression for videoProps) is true, cropParams and trimParams = those
\* of the bag of the asset's kind.

NoConfig == [present |-> FALSE, bags |-> {}, compress |-> {},
             cropParams |-> NoCrop, trimParams |-> NoTrim]
EmptyConfig == [NoConfig EXCEPT !.present = TRUE]
PlainConfig == [EmptyConfig EXCEPT !.bags = BagNames]
CompressConfig == [PlainConfig EXCEPT !.compress = BagNames]
\* { videoProps: {} }: an option bag for videos only
VideoOnlyConfig == [EmptyConfig EXCEPT !.bags = {"videoProps"}]
Configs == {NoConfig, EmptyConfig, VideoOnlyConfig, PlainConfig,
            CompressConfig}

\* JS truthiness of a string-valued field
Falsy(v) == v = Undefined \/ v = EmptyString

uuidv4(n) == "r" \o ToString(n)

\* Message contents.  tag "json" is a JSON object, "null" the JSON value
\* null, "invalid" a byte string that is not JSON.
InvalidContent ==
    [tag |-> "invalid", requestId |-> Undefined, source |-> Undefined,
     originalUrl |-> Undefined, overwriteUrl |-> Undefined,
     assetConfig |-> NoConfig]
NullContent == [InvalidContent EXCEPT !.tag = "null"]

\* JSON.stringify of the config object built by createAssetJob
JSONstringify(obj) ==
    [tag |-> "json", requestId |-> obj.requestId, source |-> obj.source,
     originalUrl |-> obj.originalUrl, overwriteUrl |-> obj.overwriteUrl,
     assetConfig |-> obj.assetConfig]

\* JSON.parse: throws on invalid text; yields null or the object otherwise
JSONparse(content) ==
    [threw |-> content.tag = "invalid",
     isNull |-> content.tag = "null",
     value |-> content]

\* JSON.parse(msg.content.toString()).requestId as evaluated by the log
\* lines of startWorker: throws on invalid JSON and on the value null.
ReparseThrows(content) ==
    LET p == JSONparse(content) IN p.threw \/ p.isNull

----------------------------------------------------------------------------
(* Event logger: src/src/utils/logService.ts *)

Event(status, message) == [status |-> status, message |-> message]

\* Log.findOne({ originalUrl }): position of the first matching document,
\* 0 when there is none
FindOne(store, url) ==
    IF \E i \in 1..Len(store) : store[i].originalUrl = url
    THEN CHOOSE i \in 1..Len(store) :
             /\ store[i].originalUrl = url
             /\ \A j \in 1..(i - 1) : store[j].originalUrl # url
    ELSE 0

\* Mutant of Log.create: the collection has no unique index.
LogCreateNoIndex(store, url) ==
    [docs |-> Append(store, [originalUrl |-> url, requests |-> <<>>]),
     threw |-> FALSE]

\* Log.create({ originalUrl, requests: [] }) under the unique index on
\* originalUrl: a second document for the same URL is refused.
LogCreate(store, url) ==
    IF FindOne(store, url) # 0
    THEN [docs |-> store, threw |-> TRUE]
    ELSE [docs |-> Append(store, [originalUrl |-> url, requests |-> <<>>]),
          threw |-> FALSE]

\* logDoc.requests.find((req) => req.requestId === requestId) on a document
HasRequest(doc, rid) ==
    \E k \in 1..Len(doc.requests) : doc.requests[k].requestId = rid

\* Mutant of the push: the new entry goes to the front of the array.
PushRequestFront(store, url, rid, source, cfg) ==
    LET i == FindOne(store, url)
        entry == [requestId |-> rid, source |-> source,
                  processingConfig |-> cfg, events |-> <<>>]
    IN IF i = 0 THEN store
       ELSE [store EXCEPT ![i].requests = <<entry>> \o @]

\* logDoc.requests.push({...}); logDoc.save(): the new entry is pushed at the
\* end of the stored document's requests array.
PushRequest(store, url, rid, source, cfg) ==
    LET i == FindOne(store, url)
        entry == [requestId |-> rid, source |-> source,
                  processingConfig |-> cfg, events |-> <<>>]
    IN IF i = 0 THEN store
       ELSE [store EXCEPT ![i].requests = Append(@, entry)]

\* Mutant of the update: the event is pushed onto every entry of the
\* document of the URL.
UpdateOnePushAll(store, url, rid, event) ==
    [i \in 1..Len(store) |->
        IF store[i].originalUrl = url /\ HasRequest(store[i], rid)
        THEN [store[i] EXCEPT !.requests =
                 [k \in 1..Len(@) |-> [@[k] EXCEPT !.events = Append(@, event)]]]
        ELSE store[i]]

\* Log.updateOne({ originalUrl, "requests.requestId": requestId },
\*               { $push: { "requests.$.events": event } })
\* pushes onto the first matching entry of the first matching document and
\* does nothing when no document matches.
UpdateOnePush(store, url, rid, event) ==
    LET match(i) == store[i].originalUrl = url /\ HasRequest(store[i], rid)
    IN IF \E i \in 1..Len(store) : match(i)
       THEN LET i == CHOOSE i \in 1..Len(store) :
                         match(i) /\ \A j \in 1..(i - 1) : ~match(j)
                k == CHOOSE k \in 1..Len(store[i].requests) :
                         /\ store[i].requests[k].requestId = rid
                         /\ \A j \in 1..(k - 1) :
                                store[i].requests[j].requestId # rid
            IN [store EXCEPT ![i].requests[k].events = Append(@, event)]
       ELSE store

\* Mutant of logEventCurried: the try/catch around the update is missing.
LogEventNoCatch(store, url, rid, event, storeFails) ==
    [docs |-> IF storeFails THEN store
              ELSE UpdateOnePush(store, url, rid, event),
     threw |-> storeFails]

\* logEventCurried: the handle returned by createLogger.  storeFails says
\* whether the updateOne of this call raises; the catch swallows it.
LogEventCurried(store, url, rid, event, storeFails) ==
    [docs |-> IF storeFails THEN store
              ELSE UpdateOnePush(store, url, rid, event),
     threw |-> FALSE]

\* The appends of one pipeline step, in order; lostIdx are the positions
\* whose store update fails.  An append that raises ends the sequence.
RECURSIVE LogEvents(_, _, _, _, _, _)
LogEvents(store, url, rid, evs, lostIdx, k) ==
    IF k > Len(evs) THEN [docs |-> store, threw |-> FALSE]
    ELSE LET r == LogEventCurried(store, url, rid, evs[k], k \in lostIdx)
         IN IF r.threw THEN r
            ELSE LogEvents(r.docs, url, rid, evs, lostIdx, k + 1)

\* Mutant of createLogger: the entry is pushed without looking for an
\* existing one.
CreateLoggerAlwaysPush(store, rid, source, url, cfg) ==
    LET s1 == IF FindOne(store, url) = 0
              THEN LogCreate(store, url).docs ELSE store
    IN PushRequest(s1, url, rid, source, cfg)

\* createLogger run without interleaving and without store failures:
\* the store it leaves behind.
CreateLogger(store, rid, source, url, cfg) ==
    LET s1 == IF FindOne(store, url) = 0
              THEN LogCreate(store, url).docs ELSE store
        logDoc == s1[FindOne(s1, url)]
    IN IF ~HasRequest(logDoc, rid)
       THEN PushRequest(s1, url, rid, source, cfg)
       ELSE s1

----------------------------------------------------------------------------
(* Classifier and prober *)

StartsWith(s, prefix) ==
    Len(s) >= Len(prefix) /\ SubSeq(s, 1, Len(prefix)) = prefix

\* Content types as token sequences; <<>> is a missing header.
ContentTypes ==
    { <<"image", "/", "png">>, <<"video", "/", "mp4">>,
      <<"application", "/", "pdf">>, <<"application", "/", "pdf", ";">>,
      <<"text", "/", "html">>, <<"image">>, <<>> }

\* Mutant of getAssetType: every content type beginning with
\* application/pdf is a pdf.
getAssetTypePdfPrefix(probeOk, contentType) ==
    IF ~probeOk THEN "unknown"
    ELSE IF StartsWith(contentType, <<"image", "/">>) THEN "image"
    ELSE IF StartsWith(contentType, <<"video", "/">>) THEN "video"
    ELSE IF StartsWith(contentType, <<"application", "/", "pdf">>) THEN "pdf"
    ELSE "unknown"

\* getAssetType: probeOk = the HEAD request returned a response
getAssetType(probeOk, contentType) ==
    IF ~probeOk THEN "unknown"
    ELSE IF StartsWith(contentType, <<"image", "/">>) THEN "image"
    ELSE IF StartsWith(contentType, <<"video", "/">>) THEN "video"
    ELSE IF contentType = <<"application", "/", "pdf">> THEN "pdf"
    ELSE "unknown"

\* Mutant of publicAssetExists: a network error counts as present.
publicAssetExistsOptimistic(probeOk, respOk) == IF ~probeOk THEN TRUE ELSE respOk

\* publicAssetExists: resp.ok of a HEAD request, false on a network error
publicAssetExists(probeOk, respOk) == IF ~probeOk THEN FALSE ELSE respOk

\* getContentType of the worker
getContentType(assetType) ==
    CASE assetType = "image" -> "image/jpeg"
      [] assetType = "video" -> "video/mp4"
      [] assetType = "pdf" -> "application/pdf"
      [] OTHER -> "application/octet-stream"

----------------------------------------------------------------------------
(* Executors: src/unnamed/part_000, src/src/utils/public-asset-exists.ts *)

\* Mutant of the image floor: 500 kB in powers of ten.
IMAGE_MIN_SIZE_DECIMAL == 500 * 1000

IMAGE_MIN_SIZE == 500 * 1024
VIDEO_MIN_SIZE == 1536 * 1024
PDF_MIN_SIZE == 50 * 1024
QUALITY_COMPRESSED == 60
QUALITY_FULL == 100
CRF_COMPRESSED == 32

NoArtifact == [format |-> "none", quality |-> 0, crf |-> 0, compressed |-> FALSE]

\* Input sizes around each floor
Sizes(assetType) ==
    CASE assetType = "image" -> {IMAGE_MIN_SIZE, IMAGE_MIN_SIZE + 1}
      [] assetType = "video" -> {VIDEO_MIN_SIZE, VIDEO_MIN_SIZE + 1}
      [] OTHER -> {PDF_MIN_SIZE, PDF_MIN_SIZE + 1}

ExecOutcomes == {"ok", "stderr", "fail"}

\* What the codec was handed: the rectangle of image.extract or of the crop
\* filter, and the window of setStartTime/setDuration
NoCodec == [crop |-> NoCrop, trim |-> NoTrim, validCrop |-> FALSE,
            validTrim |-> FALSE]

\* sharp(inputPath).metadata()
ProbeRaises == [ok |-> FALSE, width |-> 0, height |-> 0, timed |-> FALSE,
                duration |-> 0]
\* a probe that answers without width, height or duration
ProbeEmpty == [ProbeRaises EXCEPT !.ok = TRUE]
\* a probe that answers a 4 x 3 frame of 30 seconds
ProbeFull == [ok |-> TRUE, width |-> 4, height |-> 3, timed |-> TRUE,
              duration |-> 30]
Probes == {ProbeRaises, ProbeEmpty, ProbeFull}

\* getVideoDimensions: rejects on an ffprobe error and on a missing width
\* or height
getVideoDimensions(probe) ==
    [threw |-> ~probe.ok \/ probe.width = 0 \/ probe.height = 0,
     width |-> probe.width, height |-> probe.height]

\* getVideoDuration: rejects on an ffprobe error and on a duration that is
\* not a number
getVideoDuration(probe) ==
    [threw |-> ~probe.ok \/ ~probe.timed, duration |-> probe.duration]

\* Mutant of the image crop condition: the right and bottom edges are not
\* tested.
imageCropRejectedLenient(cropParams, imgWidth, imgHeight) ==
    cropParams.x < 0 \/ cropParams.y < 0

\* The condition of processImage under which the crop is not used
imageCropRejected(cropParams, imgWidth, imgHeight) ==
    \/ cropParams.x < 0
    \/ cropParams.y < 0
    \/ cropParams.x + cropParams.width > imgWidth
    \/ cropParams.y + cropParams.height > imgHeight

\* Mutant of the video crop condition: a rectangle touching the right or
\* bottom edge is not used.
videoCropRejectedAtEdge(cropParams, vidWidth, vidHeight) ==
    \/ cropParams.x < 0
    \/ cropParams.y < 0
    \/ cropParams.x + cropParams.width >= vidWidth
    \/ cropParams.y + cropParams.height >= vidHeight

\* The condition of processVideo under which the crop is not used
videoCropRejected(cropParams, vidWidth, vidHeight) ==
    \/ cropParams.x < 0
    \/ cropParams.y < 0
    \/ cropParams.x + cropParams.width > vidWidth
    \/ cropParams.y + cropParams.height > vidHeight

\* Mutant of the trim condition: start >= end is let through.
trimRejectedLenient(trimParams, videoDuration) ==
    \/ trimParams.start < 0
    \/ trimParams.end > videoDuration

\* The condition of processVideo under which the trim is not used
trimRejected(trimParams, videoDuration) ==
    \/ trimParams.start < 0
    \/ trimParams.end > videoDuration
    \/ trimParams.start >= trimParams.end

\* image.extract({left, top, width, height}) raises unless width and height
\* are positive and the area lies inside the image.
extractRaises(rect, imgWidth, imgHeight) ==
    \/ rect.width <= 0
    \/ rect.height <= 0
    \/ rect.x < 0
    \/ rect.y < 0
    \/ rect.x + rect.width > imgWidth
    \/ rect.y + rect.height > imgHeight

\* ffmpeg ends with an error on a crop filter whose size is not positive.
cropFilterRaises(rect) == rect.width <= 0 \/ rect.height <= 0

Thrown(events, codec) ==
    [threw |-> TRUE, events |-> events, artifact |-> NoArtifact,
     codec |-> codec]

\* processImage.  With cropParams the metadata is read first (a rejection of
\* metadata() leaves processImage); a rectangle the condition rejects is
\* replaced by (0, 0, imgWidth, imgHeight), and image.extract is called with
\* the rectangle either way.  outcome "fail" is sharp raising on the input.
processImage(compress, cropParams, size, probe, outcome) ==
    LET imgWidth == probe.width
        imgHeight == probe.height
        rejected == imageCropRejected(cropParams, imgWidth, imgHeight)
        rect == IF rejected
                THEN [given |-> TRUE, x |-> 0, y |-> 0, width |-> imgWidth,
                      height |-> imgHeight]
                ELSE cropParams
        codec == [NoCodec EXCEPT !.crop = IF cropParams.given THEN rect ELSE NoCrop,
                                 !.validCrop = cropParams.given /\ ~rejected]
        events == IF cropParams.given /\ rejected
                  THEN << Event("warning", "Crop parameters exceed image dimensions. Proceeding without cropping (using full image).") >>
                  ELSE <<>>
        quality == IF compress /\ size > IMAGE_MIN_SIZE
                   THEN QUALITY_COMPRESSED ELSE QUALITY_FULL
    IN IF cropParams.given /\ ~probe.ok THEN Thrown(<<>>, NoCodec)
       ELSE IF \/ outcome = "fail"
               \/ cropParams.given /\ extractRaises(rect, imgWidth, imgHeight)
       THEN Thrown(events, codec)
       ELSE [threw |-> FALSE,
             events |-> events,
             artifact |-> [format |-> "webp", quality |-> quality, crf |-> 0,
                           compressed |-> quality = QUALITY_COMPRESSED],
             codec |-> codec]

\* processVideo.  Crop and trim are each validated against a probe of their
\* own inside a try block; the ffmpeg command gets the trim and the crop
\* only when valid, -crf 32 above the floor, and is rejected on an ffmpeg
\* error (outcome "fail", or a crop filter ffmpeg refuses).
processVideo(compression, cropParams, trimParams, size, dimProbe, durProbe, outcome) ==
    LET dims == getVideoDimensions(dimProbe)
        validCrop == /\ cropParams.given
                     /\ ~dims.threw
                     /\ ~videoCropRejected(cropParams, dims.width, dims.height)
        cropEvents ==
            IF ~cropParams.given THEN <<>>
            ELSE IF dims.threw
            THEN << Event("warning", "Error retrieving video dimensions") >>
            ELSE IF ~validCrop
            THEN << Event("warning", "Crop parameters exceed video dimensions. Proceeding without cropping (using full video).") >>
            ELSE <<>>
        dur == getVideoDuration(durProbe)
        validTrim == /\ trimParams.given
                     /\ ~dur.threw
                     /\ ~trimRejected(trimParams, dur.duration)
        trimEvents ==
            IF ~trimParams.given THEN <<>>
            ELSE IF dur.threw
            THEN << Event("warning", "Error retrieving video duration") >>
            ELSE IF ~validTrim
            THEN << Event("warning", "Trim parameters are invalid. Proceeding without trimming.") >>
            ELSE <<>>
        trimSkipped ==
            IF trimParams.given /\ ~validTrim
            THEN << Event("warning", "Trimming skipped due to invalid trim parameters.") >>
            ELSE <<>>
        cropSkipped ==
            IF cropParams.given /\ ~validCrop
            THEN << Event("warning", "Cropping skipped due to invalid crop parameters.") >>
            ELSE <<>>
        applied == compression /\ size > VIDEO_MIN_SIZE
        sizeEvents ==
            IF applied THEN <<>>
            ELSE << Event("processing", "Skipping compression due to file size threshold.") >>
        events == cropEvents \o trimEvents \o trimSkipped \o cropSkipped
                  \o sizeEvents
        codec == [crop |-> IF validCrop THEN cropParams ELSE NoCrop,
                  trim |-> IF validTrim THEN trimParams ELSE NoTrim,
                  validCrop |-> validCrop, validTrim |-> validTrim]
    IN IF outcome = "fail" \/ (validCrop /\ cropFilterRaises(cropParams))
       THEN Thrown(events, codec)
       ELSE [threw |-> FALSE,
             events |-> events,
             artifact |-> [format |-> "mp4", quality |-> 0,
                           crf |-> IF applied THEN CRF_COMPRESSED ELSE 0,
                           compressed |-> applied],
             codec |-> codec]

\* Mutant of processPDF: a failure of the Ghostscript pass leaves processPDF.
processPDFRaises(compress, size, outcome) ==
    IF compress /\ size > PDF_MIN_SIZE
    THEN IF outcome = "fail"
         THEN Thrown(<< Event("processing", "Compressing PDF using Ghostscript...") >>,
                     NoCodec)
         ELSE [threw |-> FALSE,
               events |->
                   << Event("processing", "Compressing PDF using Ghostscript...") >>
                   \o (IF outcome = "stderr"
                       THEN << Event("warning", "Ghostscript reported") >>
                       ELSE <<>>),
               artifact |-> [format |-> "pdf", quality |-> 0, crf |-> 0,
                             compressed |-> TRUE],
               codec |-> NoCodec]
    ELSE [threw |-> FALSE,
          events |-> << Event("warning", "Skipping PDF compression.") >>,
          artifact |-> [format |-> "pdf", quality |-> 0, crf |-> 0,
                        compressed |-> FALSE],
          codec |-> NoCodec]

\* processPDF: Ghostscript pass above the floor; on its failure the original
\* bytes are returned.  It never raises on a compression failure.
processPDF(compress, size, outcome) ==
    IF compress /\ size > PDF_MIN_SIZE
    THEN [threw |-> FALSE,
          events |->
              << Event("processing", "Compressing PDF using Ghostscript...") >>
              \o (CASE outcome = "stderr" -> << Event("warning", "Ghostscript reported") >>
                    [] outcome = "fail" -> << Event("warning", "Error during PDF compression") >>
                    [] OTHER -> <<>>),
          artifact |-> [format |-> "pdf", quality |-> 0, crf |-> 0,
                        compressed |-> outcome # "fail"],
          codec |-> NoCodec]
    ELSE [threw |-> FALSE,
          events |-> << Event("warning", "Skipping PDF compression.") >>,
          artifact |-> [format |-> "pdf", quality |-> 0, crf |-> 0,
                        compressed |-> FALSE],
          codec |-> NoCodec]

\* A path on the local disk: the folder, the parts of the file name, the
\* timestamp within the name and the extension
Path(dir, name, stamp, ext) ==
    [dir |-> dir, name |-> name, stamp |-> stamp, ext |-> ext]

NoPath == Path("", <<>>, 0, "")

\* path.join(os.tmpdir(), "asset-worker", `input-${Date.now()}`)
InputPath(now) == Path("asset-worker", <<"input-">>, now, "")

\* const outputPath = path.join(outputFolder, `processed-${baseName}.webp`)
imageOutputPath(inputPath) ==
    Path("processed", <<"processed-">> \o inputPath.name, inputPath.stamp,
         ".webp")

\* const outputPath = path.join(outputFolder, `compressed-${baseName}.mp4`)
videoOutputPath(inputPath) ==
    Path("processed", <<"compressed-">> \o inputPath.name, inputPath.stamp,
         ".mp4")

\* const outPath = path.join(tempDir, `processed-pdf-${Date.now()}.pdf`)
pdfOutPath(now) == Path("asset-worker", <<"processed-pdf-">>, now, ".pdf")

\* The path processAsset resolves to
outputPath(assetType, inputPath, now) ==
    IF assetType = "image" THEN imageOutputPath(inputPath)
    ELSE IF assetType = "video" THEN videoOutputPath(inputPath)
    ELSE pdfOutPath(now)

\* The result of processAsset: that of the executor it called, with the
\* name of the executor and the error that left processAsset
Called(executor, error, r) ==
    [threw |-> r.threw, events |-> r.events, artifact |-> r.artifact,
     codec |-> r.codec, executor |-> executor,
     error |-> IF r.threw THEN error ELSE "none"]

\* Mutant of processAsset: a kind without its option bag is processed with
\* the defaults of its executor.
processAssetLenient(assetType, cfg, size, probe, outcome, writeOk) ==
    IF ~cfg.present
    THEN Called("none", "TypeError", Thrown(<<>>, NoCodec))
    ELSE IF assetType = "image"
    THEN Called("processImage", "executor",
                processImage("imageProps" \in cfg.compress, cfg.cropParams,
                             size, probe, outcome))
    ELSE IF assetType = "video"
    THEN Called("processVideo", "executor",
                processVideo("videoProps" \in cfg.compress, cfg.cropParams,
                             cfg.trimParams, size, probe, probe, outcome))
    ELSE LET r == processPDF("pdfProps" \in cfg.compress, size, outcome)
         IN IF writeOk THEN Called("processPDF", "executor", r)
            ELSE Called("processPDF", "writeFile", Thrown(r.events, NoCodec))

\* processAsset: assetConfig.hasOwnProperty raises a TypeError when the
\* message carries no assetConfig; a kind without its bag is unsupported;
\* writeOk is the writeFile of the pdf buffer.
processAsset(assetType, cfg, size, probe, outcome, writeOk) ==
    IF ~cfg.present
    THEN Called("none", "TypeError", Thrown(<<>>, NoCodec))
    ELSE IF assetType = "image" /\ "imageProps" \in cfg.bags
    THEN Called("processImage", "executor",
                processImage("imageProps" \in cfg.compress, cfg.cropParams,
                             size, probe, outcome))
    ELSE IF assetType = "video" /\ "videoProps" \in cfg.bags
    THEN Called("processVideo", "executor",
                processVideo("videoProps" \in cfg.compress, cfg.cropParams,
                             cfg.trimParams, size, probe, probe, outcome))
    ELSE IF assetType = "pdf" /\ "pdfProps" \in cfg.bags
    THEN LET r == processPDF("pdfProps" \in cfg.compress, size, outcome)
         IN IF writeOk THEN Called("processPDF", "executor", r)
            ELSE Called("processPDF", "writeFile", Thrown(r.events, NoCodec))
    ELSE Called("none", "Unsupported asset type", Thrown(<<>>, NoCodec))

----------------------------------------------------------------------------
(* Intake: src/src/controllers/assetController.ts *)

OverwriteOf(url) == IF url = Undefined THEN "put-u1" ELSE "put-" \o url

\* Request bodies.  requestId is an extra field a caller may send along;
\* extraOptions is spread after the generated requestId.
BodiesWith(configs, extraIds) ==
    { [source |-> s, originalUrl |-> u,
       overwriteUrl |-> IF o THEN OverwriteOf(u) ELSE Undefined,
       assetConfig |-> c, requestId |-> x] :
        s \in Sources \cup {Undefined},
        u \in URLs \cup {Undefined},
        o \in BOOLEAN,
        c \in configs,
        x \in extraIds }

Bodies == BodiesWith(Configs, {Undefined})

ValidBody(body) ==
    /\ ~Falsy(body.source)
    /\ ~Falsy(body.originalUrl)
    /\ ~Falsy(body.overwriteUrl)

\* The config object published for a valid body and a fresh uuid
JobConfig(body, requestId) ==
    [requestId |-> IF body.requestId # Undefined
                   THEN body.requestId ELSE requestId,
     source |-> body.source,
     originalUrl |-> body.originalUrl,
     overwriteUrl |-> body.overwriteUrl,
     assetConfig |-> body.assetConfig]

\* The required fields of a body that are missing or empty
Missing(body) ==
    {f \in {"source", "originalUrl", "overwriteUrl"} : Falsy(body[f])}

\* The answer to an intake request, with the request's url and the required
\* fields it lacked
Response(code, requestId, url, missing) ==
    [code |-> code, requestId |-> requestId, originalUrl |-> url,
     missing |-> missing]

NoResponse == Response(0, Undefined, Undefined, {})

\* Mutant of createAssetJob: the answer does not wait for the channel.
createAssetJobAnswersFirst(body, channelOk) ==
    /\ IF ~ValidBody(body)
       THEN /\ response' = Response(400, Undefined, Undefined, Missing(body))
            /\ UNCHANGED <<queue, published>>
       ELSE LET requestId == uuidv4(published + 1)
            IN /\ response' = Response(200, requestId, body.originalUrl, {})
               /\ IF ~channelOk
                  THEN UNCHANGED <<queue, published>>
                  ELSE /\ queue' = Append(queue,
                              JSONstringify(JobConfig(body, requestId)))
                       /\ published' = published + 1
    /\ UNCHANGED <<jobs, docs, faults, delivered, lastOp,
                   files, clock, rabbit>>

\* createAssetJob: 400 on a missing field, 500 when connectRabbitMQ or
\* sendToQueue raises, otherwise one persistent message and 200.  The n-th
\* published message carries the n-th uuid; a uuid drawn by a request that
\* ends in 500 is never seen again.
createAssetJob(body, channelOk) ==
    /\ IF ~ValidBody(body)
       THEN /\ response' = Response(400, Undefined, Undefined, Missing(body))
            /\ UNCHANGED <<queue, published>>
       ELSE LET requestId == uuidv4(published + 1)
            IN IF ~channelOk
               THEN /\ response' = Response(500, Undefined, Undefined, {})
                    /\ UNCHANGED <<queue, published>>
               ELSE /\ queue' = Append(queue,
                           JSONstringify(JobConfig(body, requestId)))
                    /\ published' = published + 1
                    /\ response' = Response(200, requestId, body.originalUrl,
                                            {})
    /\ UNCHANGED <<jobs, docs, faults, delivered, lastOp,
                   files, clock, rabbit>>

\* A JSON object that lacks the source field
NoSourceContent ==
    [tag |-> "json", requestId |-> "x1", source |-> Undefined,
     originalUrl |-> "u1", overwriteUrl |-> "put-u1",
     assetConfig |-> PlainConfig]

ForeignContents == {InvalidContent, NullContent, NoSourceContent}

\* Another producer on the same queue publishes bytes that are not a job.
ExternalPublish(content) ==
    /\ queue' = Append(queue, content)
    /\ published' = published + 1
    /\ UNCHANGED <<jobs, docs, faults, response, delivered, lastOp,
                   files, clock, rabbit>>

----------------------------------------------------------------------------
(* Worker: src/src/models/Log.ts lines 140-310 *)

\* The try block at the head of processMessage
ParseFails(content) ==
    LET p == JSONparse(content)
    IN \/ p.threw
       \/ p.isNull
       \/ Falsy(p.value.source)
       \/ Falsy(p.value.originalUrl)
       \/ Falsy(p.value.requestId)

NoPut == [issued |-> FALSE, url |-> Undefined, contentType |-> Undefined,
          originalPresent |-> FALSE]

\* What the HEAD request of getAssetType met: probeOk = it returned a
\* response, contentType = the header of that response
NoHead == [probeOk |-> FALSE, contentType |-> <<>>]

\* The call of processAsset a job made: the size of the downloaded file, what
\* the probe and the codec did, and what the codec was handed
NoExec == [ran |-> FALSE, size |-> 0, probe |-> ProbeRaises,
           outcome |-> "ok", codec |-> NoCodec, executor |-> "none",
           error |-> "none"]

\* What unlinkSync may do in the cleanup: raise on neither file, on the input
\* file or on the processed file
CleanupFailures == {"none", "input", "processed"}

NewJob(content) ==
    [content |-> content,
     pc |-> IF ParseFails(content) THEN "ack" ELSE "getAssetType",
     assetType |-> "unknown",
     head |-> NoHead,
     artifact |-> NoArtifact,
     failedAt |-> IF ParseFails(content) THEN "parse" ELSE "none",
     probed |-> "none",
     probeError |-> FALSE,
     put |-> NoPut,
     issued |-> <<>>,
     lost |-> 0,
     threwFromAppend |-> FALSE,
     cleanup |-> "none",
     inputPath |-> NoPath,
     processedPath |-> NoPath,
     exec |-> NoExec,
     acks |-> 0,
     nacks |-> 0,
     unhandled |-> FALSE]

JobIds == 1..Len(jobs)

At(d, pc) == d \in JobIds /\ jobs[d].pc = pc

Set(d, fields) ==
    [jobs EXCEPT ![d] = [f \in DOMAIN @ |->
        IF f \in DOMAIN fields THEN fields[f] ELSE @[f]]]

InFlight == Cardinality({d \in JobIds : jobs[d].pc # "done"})

Unsettled(js) == SelectSeq(js, LAMBDA j : j.pc # "done")

\* A store operation of createLogger may fail while the fault budget lasts.
MayFail(storeFails) == storeFails => faults < MaxFaults

\* The consumer callback is invoked for the next message; processMessage
\* runs synchronously up to its first await.  The channel sets no prefetch
\* count, so a delivery does not wait for the earlier ones to settle.
\* Settled deliveries are forgotten when the next one arrives.
Deliver ==
    /\ queue # <<>>
    /\ delivered <= published
    /\ jobs' = Append(Unsettled(jobs), NewJob(Head(queue)))
    /\ queue' = Tail(queue)
    /\ delivered' = delivered + 1
    /\ UNCHANGED <<docs, faults, response, published, lastOp,
                   files, clock, rabbit>>

Classify(d, probeOk, contentType) ==
    /\ At(d, "getAssetType")
    /\ LET kind == getAssetType(probeOk, contentType)
       IN jobs' = Set(d, [assetType |-> kind,
                          head |-> [probeOk |-> probeOk,
                                    contentType |-> IF probeOk THEN contentType
                                                    ELSE <<>>],
                          pc |-> IF kind = "unknown" THEN "ack" ELSE "findOne",
                          failedAt |-> IF kind = "unknown" THEN "unknown"
                                       ELSE "none"])
    /\ UNCHANGED <<queue, docs, faults, response, published, delivered, lastOp,
                   files, clock, rabbit>>

\* createLogger, first await: Log.findOne
LoggerFindOne(d, storeFails) ==
    /\ At(d, "findOne")
    /\ MayFail(storeFails)
    /\ LET m == jobs[d].content
           i == FindOne(docs, m.originalUrl)
       IN IF storeFails
          THEN /\ jobs' = Set(d, [pc |-> "nack", failedAt |-> "open"])
               /\ faults' = faults + 1
          ELSE /\ jobs' = Set(d,
                     [pc |-> IF i = 0 THEN "create"
                             ELSE IF HasRequest(docs[i], m.requestId)
                                  THEN "pending" ELSE "save"])
               /\ UNCHANGED faults
    /\ UNCHANGED <<queue, docs, response, published, delivered, lastOp,
                   files, clock, rabbit>>

\* createLogger, second await: Log.create
LoggerCreate(d, storeFails) ==
    /\ At(d, "create")
    /\ MayFail(storeFails)
    /\ LET r == LogCreate(docs, jobs[d].content.originalUrl)
       IN IF storeFails \/ r.threw
          THEN /\ jobs' = Set(d, [pc |-> "nack", failedAt |-> "open"])
               /\ faults' = IF storeFails THEN faults + 1 ELSE faults
               /\ UNCHANGED docs
          ELSE /\ jobs' = Set(d, [pc |-> "save"])
               /\ docs' = r.docs
               /\ UNCHANGED faults
    /\ UNCHANGED <<queue, response, published, delivered, lastOp,
                   files, clock, rabbit>>

\* createLogger, third await: requests.push and logDoc.save
LoggerSave(d, storeFails) ==
    /\ At(d, "save")
    /\ MayFail(storeFails)
    /\ LET m == jobs[d].content
       IN IF storeFails
          THEN /\ jobs' = Set(d, [pc |-> "nack", failedAt |-> "open"])
               /\ faults' = faults + 1
               /\ UNCHANGED docs
          ELSE /\ jobs' = Set(d, [pc |-> "pending"])
               /\ docs' = PushRequest(docs, m.originalUrl, m.requestId,
                                      m.source, m.assetConfig)
               /\ UNCHANGED faults
    /\ UNCHANGED <<queue, response, published, delivered, lastOp,
                   files, clock, rabbit>>

\* The logEvent calls of one step: events evs, of which those at lostIdx hit
\* a failing store; then the job takes the given fields.  An append that
\* raised would propagate out of processMessage.
Emit(d, evs, lostIdx, fields) ==
    /\ lostIdx \subseteq 1..Len(evs)
    /\ faults + Cardinality(lostIdx) <= MaxFaults
    /\ LET m == jobs[d].content
           r == LogEvents(docs, m.originalUrl, m.requestId, evs, lostIdx, 1)
           base == [issued |-> jobs[d].issued \o evs,
                    lost |-> jobs[d].lost + Cardinality(lostIdx)]
       IN /\ docs' = r.docs
          /\ jobs' = IF r.threw
                     THEN Set(d, base @@ [pc |-> "nack",
                                          threwFromAppend |-> TRUE])
                     ELSE Set(d, fields @@ base)
    /\ faults' = faults + Cardinality(lostIdx)

\* What no step of processMessage touches
Rest == <<queue, response, published, delivered, lastOp, clock, rabbit>>

\* await logEvent({ status: "pending", ... })
\* and the name of the temporary input file, taken from the clock
LogPending(d, lostIdx) ==
    /\ At(d, "pending")
    /\ Emit(d, << Event("pending", "Processing started") >>, lostIdx,
            [pc |-> "download", inputPath |-> InputPath(clock)])
    /\ UNCHANGED files
    /\ UNCHANGED Rest

\* Step 1: downloadFile and writeFileSync
Download(d, ok, lostIdx) ==
    /\ At(d, "download")
    /\ IF ok
       THEN Emit(d, << Event("processing", "File downloaded") >>, lostIdx,
                 [pc |-> "process"])
       ELSE Emit(d, << Event("failed", "Download failed") >>, lostIdx,
                 [pc |-> "nack", failedAt |-> "download"])
    /\ files' = IF ok THEN files \cup {jobs[d].inputPath} ELSE files
    /\ UNCHANGED Rest

\* Step 2: processAsset
Process(d, size, probe, outcome, writeOk, lostIdx) ==
    /\ At(d, "process")
    /\ size \in Sizes(jobs[d].assetType)
    /\ LET r == processAsset(jobs[d].assetType, jobs[d].content.assetConfig,
                             size, probe, outcome, writeOk)
           exec == [ran |-> TRUE, size |-> size, probe |-> probe,
                    outcome |-> outcome, codec |-> r.codec,
                    executor |-> r.executor, error |-> r.error]
           out == outputPath(jobs[d].assetType, jobs[d].inputPath, clock)
       IN IF r.threw
          THEN /\ Emit(d, r.events \o
                          << Event("failed", "Processing failed") >>,
                       lostIdx,
                       [pc |-> "nack", failedAt |-> "process", exec |-> exec])
               /\ UNCHANGED files
          ELSE /\ Emit(d, r.events \o
                          << Event("processing", "Processing complete, uploading to DO Spaces") >>,
                       lostIdx,
                       [pc |-> "readFile", artifact |-> r.artifact,
                        exec |-> exec, processedPath |-> out])
               /\ files' = files \cup {out}
    /\ UNCHANGED Rest

\* Step 3: fs.promises.readFile(processedPath); a failure goes to the
\* operational logger only.  The read raises when the file is not there.
ReadBack(d, ok) ==
    /\ At(d, "readFile")
    /\ jobs' = IF ok /\ jobs[d].processedPath \in files
               THEN Set(d, [pc |-> "exists"])
               ELSE Set(d, [pc |-> "nack", failedAt |-> "readback"])
    /\ UNCHANGED <<docs, faults, files>>
    /\ UNCHANGED Rest

\* Mutant of step 4: the result of the existence probe is not consulted.
CheckExistsIgnored(d, probeOk, respOk, lostIdx) ==
    /\ At(d, "exists")
    /\ jobs' = Set(d, [pc |-> "upload",
                       probed |-> IF publicAssetExists(probeOk, respOk)
                                  THEN "true" ELSE "false"])
    /\ lostIdx = {}
    /\ UNCHANGED <<docs, faults>>
    /\ UNCHANGED <<queue, response, published, delivered, lastOp,
                   files, clock, rabbit>>

\* Step 4, first await: publicAssetExists(originalUrl).  respOk is what the
\* remote storage answers at this moment: the caller may delete the asset,
\* or put it back, at any time.
CheckExists(d, probeOk, respOk, lostIdx) ==
    /\ At(d, "exists")
    /\ IF publicAssetExists(probeOk, respOk)
       THEN /\ jobs' = Set(d, [pc |-> "upload", probed |-> "true",
                                probeError |-> ~probeOk])
            /\ lostIdx = {}
            /\ UNCHANGED <<docs, faults>>
       ELSE Emit(d, << Event("completed", "Original asset deleted by user. Skipping final upload.") >>,
                 lostIdx, [pc |-> "ack", probed |-> "false",
                           probeError |-> ~probeOk])
    /\ UNCHANGED files
    /\ UNCHANGED Rest

\* Mutant of step 4: the `completed` event is appended before the outcome
\* of the PUT is known, and the catch block appends `failed` after it.
UploadLogsFirst(d, ok, originalPresent, lostIdx) ==
    /\ At(d, "upload")
    /\ LET put == [issued |-> TRUE, url |-> jobs[d].content.overwriteUrl,
                   contentType |-> getContentType(jobs[d].assetType),
                   originalPresent |-> originalPresent]
       IN IF ok
          THEN Emit(d, << Event("completed", "Upload successful") >>, lostIdx,
                    [pc |-> "cleanup", put |-> put])
          ELSE Emit(d, << Event("completed", "Upload successful"),
                          Event("failed", "Upload failed") >>, lostIdx,
                    [pc |-> "nack", failedAt |-> "upload", put |-> put])
    /\ UNCHANGED files
    /\ UNCHANGED Rest

\* Step 4, second await: uploadFile issues the PUT and raises when the
\* response is not ok.  originalPresent says whether the original asset
\* exists at the moment of the PUT.
Upload(d, ok, originalPresent, lostIdx) ==
    /\ At(d, "upload")
    /\ LET put == [issued |-> TRUE, url |-> jobs[d].content.overwriteUrl,
                   contentType |-> getContentType(jobs[d].assetType),
                   originalPresent |-> originalPresent]
       IN IF ok
          THEN Emit(d, << Event("completed", "Upload successful") >>, lostIdx,
                    [pc |-> "cleanup", put |-> put])
          ELSE Emit(d, << Event("failed", "Upload failed") >>, lostIdx,
                    [pc |-> "nack", failedAt |-> "upload", put |-> put])
    /\ UNCHANGED files
    /\ UNCHANGED Rest

\* The files left by step 5: existsSync and unlinkSync on the input file,
\* then on the processed file; the first unlinkSync that raises ends it.
Unlinked(fs, inputPath, processedPath, failure) ==
    IF failure = "input" THEN fs
    ELSE IF failure = "processed" THEN fs \ {inputPath}
    ELSE fs \ {inputPath, processedPath}

\* unlinkSync is reached only for a file that existsSync has found.
MayRaise(d, failure) ==
    /\ failure = "input" => jobs[d].inputPath \in files
    /\ failure = "processed" => jobs[d].processedPath \in files

\* Mutant of step 5: an error of unlinkSync leaves processMessage.
CleanupNoCatch(d, failure) ==
    /\ At(d, "cleanup")
    /\ MayRaise(d, failure)
    /\ jobs' = Set(d, [pc |-> IF failure = "none" THEN "ack" ELSE "nack",
                       cleanup |-> IF failure = "none" THEN "done"
                                   ELSE "error"])
    /\ files' = Unlinked(files, jobs[d].inputPath, jobs[d].processedPath,
                         failure)
    /\ UNCHANGED <<docs, faults>>
    /\ UNCHANGED Rest

\* Step 5: cleanup of the temporary files; its errors are caught.
Cleanup(d, failure) ==
    /\ At(d, "cleanup")
    /\ MayRaise(d, failure)
    /\ jobs' = Set(d, [pc |-> "ack",
                       cleanup |-> IF failure = "none" THEN "done"
                                   ELSE "error"])
    /\ files' = Unlinked(files, jobs[d].inputPath, jobs[d].processedPath,
                         failure)
    /\ UNCHANGED <<docs, faults>>
    /\ UNCHANGED Rest

\* Mutant of channel.nack(msg, false, false): the message is requeued.
NackRequeue(q, content, allUpTo, requeue) == Append(q, content)

\* channel.nack(msg, allUpTo, requeue): the queue after the rejection
ChannelNack(q, content, allUpTo, requeue) ==
    IF requeue THEN Append(q, content) ELSE q

\* Mutant of the success branch: when the log line after channel.ack
\* raises, the catch block goes on to channel.nack.
AckSettleThenNack(job) ==
    [job EXCEPT !.acks = @ + 1, !.pc = "done",
                !.nacks = IF ReparseThrows(job.content) THEN @ + 1 ELSE @]

\* The consumer's success branch: channel.ack(msg), then the log line that
\* parses the content again.  When that line raises, control enters the
\* catch block, whose own log line raises before channel.nack is reached.
AckSettle(job) ==
    [job EXCEPT !.acks = @ + 1, !.pc = "done",
                !.unhandled = ReparseThrows(job.content)]

\* The consumer's catch block: the log line parses the content again and,
\* when it does not raise, channel.nack(msg, false, false) follows.
NackSettle(job) ==
    IF ReparseThrows(job.content)
    THEN [job EXCEPT !.pc = "done", !.unhandled = TRUE]
    ELSE [job EXCEPT !.pc = "done", !.nacks = @ + 1]

\* processMessage resolved
Ack(d) ==
    /\ At(d, "ack")
    /\ jobs' = [jobs EXCEPT ![d] = AckSettle(@)]
    /\ UNCHANGED <<docs, faults, files>>
    /\ UNCHANGED Rest

\* processMessage rejected
Nack(d) ==
    /\ At(d, "nack")
    /\ jobs' = [jobs EXCEPT ![d] = NackSettle(@)]
    /\ queue' = IF jobs'[d].nacks > jobs[d].nacks
                THEN ChannelNack(queue, jobs[d].content, FALSE, FALSE)
                ELSE queue
    /\ UNCHANGED <<docs, faults, response, published, delivered, lastOp,
                   files, clock, rabbit>>

----------------------------------------------------------------------------
(* Combined server and worker: src/src/models/Log.ts lines 311-616 *)

\* Mutant of processAsset of the combined server: the option bag is looked
\* up through optional chaining, so a message without assetConfig is
\* unsupported rather than a TypeError.
IndexProcessAssetOptional(assetType, cfg, size, probe, outcome, writeOk) ==
    IF cfg.present /\ assetType = "image" /\ "imageProps" \in cfg.bags
    THEN Called("processImage", "executor",
                processImage("imageProps" \in cfg.compress, cfg.cropParams,
                             size, probe, outcome))
    ELSE IF cfg.present /\ assetType = "video" /\ "videoProps" \in cfg.bags
    THEN Called("processVideo", "executor",
                processVideo("videoProps" \in cfg.compress, cfg.cropParams,
                             cfg.trimParams, size, probe, probe, outcome))
    ELSE IF cfg.present /\ assetType = "pdf" /\ "pdfProps" \in cfg.bags
    THEN LET r == processPDF("pdfProps" \in cfg.compress, size, outcome)
         IN IF writeOk THEN Called("processPDF", "executor", r)
            ELSE Called("processPDF", "writeFile", Thrown(r.events, NoCodec))
    ELSE Called("none", "Unsupported asset type", Thrown(<<>>, NoCodec))

\* processAsset of the combined server (assetConfig: any)
IndexProcessAsset(assetType, cfg, size, probe, outcome, writeOk) ==
    IF ~cfg.present
    THEN Called("none", "TypeError", Thrown(<<>>, NoCodec))
    ELSE IF assetType = "image" /\ "imageProps" \in cfg.bags
    THEN Called("processImage", "executor",
                processImage("imageProps" \in cfg.compress, cfg.cropParams,
                             size, probe, outcome))
    ELSE IF assetType = "video" /\ "videoProps" \in cfg.bags
    THEN Called("processVideo", "executor",
                processVideo("videoProps" \in cfg.compress, cfg.cropParams,
                             cfg.trimParams, size, probe, probe, outcome))
    ELSE IF assetType = "pdf" /\ "pdfProps" \in cfg.bags
    THEN LET r == processPDF("pdfProps" \in cfg.compress, size, outcome)
         IN IF writeOk THEN Called("processPDF", "executor", r)
            ELSE Called("processPDF", "writeFile", Thrown(r.events, NoCodec))
    ELSE Called("none", "Unsupported asset type", Thrown(<<>>, NoCodec))

\* The path processAsset of the combined server resolves to
IndexOutputPath(assetType, inputPath, now) ==
    IF assetType = "image" THEN imageOutputPath(inputPath)
    ELSE IF assetType = "video" THEN videoOutputPath(inputPath)
    ELSE Path("asset-worker", <<"processed-pdf-">>, now, ".pdf")

\* getContentType of the combined server
IndexGetContentType(assetType) ==
    CASE assetType = "image" -> "image/jpeg"
      [] assetType = "video" -> "video/mp4"
      [] assetType = "pdf" -> "application/pdf"
      [] OTHER -> "application/octet-stream"

\* The try block at the head of processMessage of the combined server
IndexParseFails(content) ==
    LET p == JSONparse(content)
    IN \/ p.threw
       \/ p.isNull
       \/ Falsy(p.value.source)
       \/ Falsy(p.value.originalUrl)
       \/ Falsy(p.value.requestId)

IndexNewJob(content) ==
    [content |-> content,
     pc |-> IF IndexParseFails(content) THEN "ack" ELSE "getAssetType",
     assetType |-> "unknown",
     head |-> NoHead,
     artifact |-> NoArtifact,
     failedAt |-> IF IndexParseFails(content) THEN "parse" ELSE "none",
     probed |-> "none",
     probeError |-> FALSE,
     put |-> NoPut,
     issued |-> <<>>,
     lost |-> 0,
     threwFromAppend |-> FALSE,
     cleanup |-> "none",
     inputPath |-> NoPath,
     processedPath |-> NoPath,
     exec |-> NoExec,
     acks |-> 0,
     nacks |-> 0,
     unhandled |-> FALSE]

\* The consumer callback of the combined server is invoked for the next
\* message; no prefetch count is set here either.
IndexDeliver ==
    /\ queue # <<>>
    /\ delivered <= published
    /\ jobs' = Append(Unsettled(jobs), IndexNewJob(Head(queue)))
    /\ queue' = Tail(queue)
    /\ delivered' = delivered + 1
    /\ UNCHANGED <<docs, faults, response, published, lastOp,
                   files, clock, rabbit>>

IndexClassify(d, probeOk, contentType) ==
    /\ At(d, "getAssetType")
    /\ LET assetType == getAssetType(probeOk, contentType)
       IN jobs' = Set(d, [assetType |-> assetType,
                          head |-> [probeOk |-> probeOk,
                                    contentType |-> IF probeOk THEN contentType
                                                    ELSE <<>>],
                          pc |-> IF assetType = "unknown" THEN "ack"
                                 ELSE "findOne",
                          failedAt |-> IF assetType = "unknown" THEN "unknown"
                                       ELSE "none"])
    /\ UNCHANGED <<queue, docs, faults, response, published, delivered, lastOp,
                   files, clock, rabbit>>

\* await logEvent({ status: "pending", ... }) and the name of the input file
IndexLogPending(d, lostIdx) ==
    /\ At(d, "pending")
    /\ Emit(d, << Event("pending", "Processing started") >>, lostIdx,
            [pc |-> "download",
             inputPath |-> Path("asset-worker", <<"input-">>, clock, "")])
    /\ UNCHANGED files
    /\ UNCHANGED Rest

\* Step 1 of the combined server
IndexDownload(d, ok, lostIdx) ==
    /\ At(d, "download")
    /\ IF ok
       THEN /\ Emit(d, << Event("processing", "File downloaded") >>, lostIdx,
                    [pc |-> "process"])
            /\ files' = files \cup {jobs[d].inputPath}
       ELSE /\ Emit(d, << Event("failed", "Download failed") >>, lostIdx,
                    [pc |-> "nack", failedAt |-> "download"])
            /\ UNCHANGED files
    /\ UNCHANGED Rest

\* Step 2 of the combined server
IndexProcess(d, size, probe, outcome, writeOk, lostIdx) ==
    /\ At(d, "process")
    /\ size \in Sizes(jobs[d].assetType)
    /\ LET r == IndexProcessAsset(jobs[d].assetType,
                                  jobs[d].content.assetConfig, size, probe,
                                  outcome, writeOk)
           exec == [ran |-> TRUE, size |-> size, probe |-> probe,
                    outcome |-> outcome, codec |-> r.codec,
                    executor |-> r.executor, error |-> r.error]
           processedPath == IndexOutputPath(jobs[d].assetType,
                                            jobs[d].inputPath, clock)
       IN IF r.threw
          THEN /\ Emit(d, r.events \o
                          << Event("failed", "Processing failed") >>,
                       lostIdx,
                       [pc |-> "nack", failedAt |-> "process", exec |-> exec])
               /\ UNCHANGED files
          ELSE /\ Emit(d, r.events \o
                          << Event("processing", "Processing complete, uploading to DO Spaces") >>,
                       lostIdx,
                       [pc |-> "readFile", artifact |-> r.artifact,
                        exec |-> exec, processedPath |-> processedPath])
               /\ files' = files \cup {processedPath}
    /\ UNCHANGED Rest

\* Step 3 of the combined server
IndexReadBack(d, ok) ==
    /\ At(d, "readFile")
    /\ IF ok /\ jobs[d].processedPath \in files
       THEN jobs' = Set(d, [pc |-> "exists"])
       ELSE jobs' = Set(d, [pc |-> "nack", failedAt |-> "readback"])
    /\ UNCHANGED <<docs, faults, files>>
    /\ UNCHANGED Rest

\* Step 4 of the combined server, first await
IndexCheckExists(d, probeOk, respOk, lostIdx) ==
    /\ At(d, "exists")
    /\ IF ~publicAssetExists(probeOk, respOk)
       THEN Emit(d, << Event("completed", "Original asset deleted by user. Skipping final upload.") >>,
                 lostIdx, [pc |-> "ack", probed |-> "false",
                           probeError |-> ~probeOk])
       ELSE /\ jobs' = Set(d, [pc |-> "upload", probed |-> "true",
                                probeError |-> ~probeOk])
            /\ lostIdx = {}
            /\ UNCHANGED <<docs, faults>>
    /\ UNCHANGED files
    /\ UNCHANGED Rest

\* Step 4 of the combined server, second await: doUploadFile
IndexUpload(d, ok, originalPresent, lostIdx) ==
    /\ At(d, "upload")
    /\ LET put == [issued |-> TRUE, url |-> jobs[d].content.overwriteUrl,
                   contentType |-> IndexGetContentType(jobs[d].assetType),
                   originalPresent |-> originalPresent]
       IN IF ok
          THEN Emit(d, << Event("completed", "Upload successful") >>, lostIdx,
                    [pc |-> "cleanup", put |-> put])
          ELSE Emit(d, << Event("failed", "Upload failed") >>, lostIdx,
                    [pc |-> "nack", failedAt |-> "upload", put |-> put])
    /\ UNCHANGED files
    /\ UNCHANGED Rest

\* Step 5 of the combined server
IndexCleanup(d, failure) ==
    /\ At(d, "cleanup")
    /\ failure = "input" => jobs[d].inputPath \in files
    /\ failure = "processed" => jobs[d].processedPath \in files
    /\ jobs' = Set(d, [pc |-> "ack",
                       cleanup |-> IF failure = "none" THEN "done"
                                   ELSE "error"])
    /\ files' = CASE failure = "input" -> files
                  [] failure = "processed" -> files \ {jobs[d].inputPath}
                  [] OTHER -> files \ {jobs[d].inputPath,
                                       jobs[d].processedPath}
    /\ UNCHANGED <<docs, faults>>
    /\ UNCHANGED Rest

\* The success branch of the consumer of the combined server
IndexAckSettle(job) ==
    [job EXCEPT !.acks = @ + 1, !.pc = "done",
                !.unhandled = ReparseThrows(job.content)]

\* The catch block of the consumer of the combined server
IndexNackSettle(job) ==
    IF ReparseThrows(job.content)
    THEN [job EXCEPT !.pc = "done", !.unhandled = TRUE]
    ELSE [job EXCEPT !.pc = "done", !.nacks = @ + 1]

IndexAck(d) ==
    /\ At(d, "ack")
    /\ jobs' = [jobs EXCEPT ![d] = IndexAckSettle(@)]
    /\ UNCHANGED <<docs, faults, files>>
    /\ UNCHANGED Rest

IndexNack(d) ==
    /\ At(d, "nack")
    /\ jobs' = [jobs EXCEPT ![d] = IndexNackSettle(@)]
    /\ queue' = IF jobs'[d].nacks > jobs[d].nacks
                THEN ChannelNack(queue, jobs[d].content, FALSE, FALSE)
                ELSE queue
    /\ UNCHANGED <<docs, faults, response, published, delivered, lastOp,
                   files, clock, rabbit>>

----------------------------------------------------------------------------
(* The broker connection: src/src/routes/assetRoutes.ts lines 39-54 *)

\* startWorker and two requests handled by createAssetJob
Callers == {"startWorker", "createAssetJob1", "createAssetJob2"}

\* let connection = null; let channel = null; nobody has called yet.  0
\* stands for null, the n-th connection or channel created for n.
NoRabbit ==
    [connection |-> 0, channel |-> 0, connections |-> 0, channels |-> 0,
     calls |-> [c \in Callers |-> [pc |-> "idle", got |-> 0]]]

SetCall(c, pc, got) ==
    [rabbit.calls EXCEPT ![c] = [pc |-> pc, got |-> got]]

RabbitRest ==
    <<queue, jobs, docs, faults, response, published, delivered, lastOp,
      files, clock>>

\* connectRabbitMQ up to its first await: if (channel) return channel;
\* otherwise amqplib.connect is called
connectRabbitMQ(c) ==
    /\ rabbit.calls[c].pc \in {"idle", "returned", "raised"}
    /\ rabbit' = IF rabbit.channel # 0
                 THEN [rabbit EXCEPT
                          !.calls = SetCall(c, "returned", rabbit.channel)]
                 ELSE [rabbit EXCEPT !.calls = SetCall(c, "connect", 0)]
    /\ UNCHANGED RabbitRest

\* connection = await amqplib.connect(RABBIT_URL), then
\* connection.createChannel() is called
ConnectResolved(c, ok) ==
    /\ rabbit.calls[c].pc = "connect"
    /\ rabbit.connections < MaxConnections
    /\ rabbit' = IF ok
                 THEN [rabbit EXCEPT
                          !.connections = @ + 1,
                          !.connection = rabbit.connections + 1,
                          !.calls = SetCall(c, "createChannel", 0)]
                 ELSE [rabbit EXCEPT !.calls = SetCall(c, "raised", 0)]
    /\ UNCHANGED RabbitRest

\* channel = await connection.createChannel(), then channel.assertQueue
\* is called
ChannelCreated(c) ==
    /\ rabbit.calls[c].pc = "createChannel"
    /\ rabbit' = [rabbit EXCEPT
                     !.channels = @ + 1,
                     !.channel = rabbit.channels + 1,
                     !.calls = SetCall(c, "assertQueue", 0)]
    /\ UNCHANGED RabbitRest

\* await channel.assertQueue(...); return channel
QueueAsserted(c) ==
    /\ rabbit.calls[c].pc = "assertQueue"
    /\ rabbit' = [rabbit EXCEPT
                     !.calls = SetCall(c, "returned", rabbit.channel)]
    /\ UNCHANGED RabbitRest

NextConnect ==
    \/ \E c \in Callers : connectRabbitMQ(c)
    \/ \E c \in Callers, ok \in BOOLEAN : ConnectResolved(c, ok)
    \/ \E c \in Callers : ChannelCreated(c)
    \/ \E c \in Callers : QueueAsserted(c)

----------------------------------------------------------------------------
(* The system *)

\* The clock moves on between two readings of Date.now().
Tick ==
    /\ clock < MaxClock
    /\ clock' = clock + 1
    /\ UNCHANGED <<queue, jobs, docs, faults, response, published, delivered,
                   lastOp, files, rabbit>>

NoCall == [kind |-> "none", requestId |-> Undefined,
           originalUrl |-> Undefined, repeat |-> FALSE, before |-> <<>>,
           calls |-> 0]

Init ==
    /\ queue = <<>>
    /\ jobs = <<>>
    /\ docs = <<>>
    /\ faults = 0
    /\ response = NoResponse
    /\ published = 0
    /\ delivered = 0
    /\ lastOp = NoCall
    /\ files = {}
    /\ clock = 1
    /\ rabbit = NoRabbit

Intake ==
    /\ published < MaxMessages
    /\ \E body \in Bodies, channelOk \in BOOLEAN : createAssetJob(body, channelOk)

Foreign ==
    /\ published < MaxMessages
    /\ \E content \in ForeignContents : ExternalPublish(content)

LossSets == SUBSET (1..4)

AllSizes == Sizes("image") \cup Sizes("video") \cup Sizes("pdf")

Next ==
    \/ Intake
    \/ Foreign
    \/ Deliver
    \/ \E d \in JobIds, probeOk \in BOOLEAN, ct \in ContentTypes :
           Classify(d, probeOk, ct)
    \/ \E d \in JobIds, storeFails \in BOOLEAN : LoggerFindOne(d, storeFails)
    \/ \E d \in JobIds, storeFails \in BOOLEAN : LoggerCreate(d, storeFails)
    \/ \E d \in JobIds, storeFails \in BOOLEAN : LoggerSave(d, storeFails)
    \/ \E d \in JobIds, lostIdx \in LossSets : LogPending(d, lostIdx)
    \/ \E d \in JobIds, lostIdx \in LossSets, ok \in BOOLEAN :
           Download(d, ok, lostIdx)
    \/ \E d \in JobIds, lostIdx \in LossSets, size \in AllSizes,
          outcome \in ExecOutcomes, writeOk \in BOOLEAN :
           Process(d, size, ProbeFull, outcome, writeOk, lostIdx)
    \/ \E d \in JobIds, ok \in BOOLEAN : ReadBack(d, ok)
    \/ \E d \in JobIds, lostIdx \in LossSets, probeOk \in BOOLEAN,
          respOk \in BOOLEAN : CheckExists(d, probeOk, respOk, lostIdx)
    \/ \E d \in JobIds, lostIdx \in LossSets, ok \in BOOLEAN,
          originalPresent \in BOOLEAN : Upload(d, ok, originalPresent, lostIdx)
    \/ \E d \in JobIds, failure \in CleanupFailures : Cleanup(d, failure)
    \/ \E d \in JobIds : Ack(d)
    \/ \E d \in JobIds : Nack(d)

Spec == Init /\ [][Next]_vars

----------------------------------------------------------------------------
(* Interleaved deliveries over fewer inputs *)

ConcBodies ==
    {b \in BodiesWith({PlainConfig}, {Undefined}) : ValidBody(b)}

IntakeConc ==
    /\ published < ConcMessages
    /\ \E body \in ConcBodies : createAssetJob(body, TRUE)

NextConc ==
    \/ IntakeConc
    \/ Tick
    \/ Deliver
    \/ \E d \in JobIds : Classify(d, TRUE, <<"image", "/", "png">>)
    \/ \E d \in JobIds : LoggerFindOne(d, FALSE)
    \/ \E d \in JobIds : LoggerCreate(d, FALSE)
    \/ \E d \in JobIds : LoggerSave(d, FALSE)
    \/ \E d \in JobIds : LogPending(d, {})
    \/ \E d \in JobIds, ok \in BOOLEAN : Download(d, ok, {})
    \/ \E d \in JobIds, outcome \in {"ok", "fail"} :
           Process(d, IMAGE_MIN_SIZE, ProbeFull, outcome, TRUE, {})
    \/ \E d \in JobIds : ReadBack(d, TRUE)
    \/ \E d \in JobIds, respOk \in BOOLEAN : CheckExists(d, TRUE, respOk, {})
    \/ \E d \in JobIds, ok \in BOOLEAN : Upload(d, ok, TRUE, {})
    \/ \E d \in JobIds : Cleanup(d, "none")
    \/ \E d \in JobIds : Ack(d)
    \/ \E d \in JobIds : Nack(d)

SpecConc == Init /\ [][NextConc]_vars

----------------------------------------------------------------------------
(* One job at a time with crop, trim and compression options, no store
   faults, and every step but the executor succeeding *)

Rect(x, y, width, height) ==
    [given |-> TRUE, x |-> x, y |-> y, width |-> width, height |-> height]

Window(start, end) == [given |-> TRUE, start |-> start, end |-> end]

\* Rectangles around the edges of the 4 x 3 frame of ProbeFull
CropRects ==
    {Rect(x, y, w, h) : x \in {-1, 0, 2}, y \in {-1, 0, 1},
                        w \in {0, 2, 3}, h \in {-1, 2, 3}}

\* Windows around the 30 seconds of ProbeFull
TrimWindows == {Window(a, b) : a \in {-1, 0, 10, 50}, b \in {10, 30, 50}}

ExecConfigs ==
    {PlainConfig, CompressConfig}
    \cup {[PlainConfig EXCEPT !.cropParams = c] : c \in CropRects}
    \cup {[PlainConfig EXCEPT !.trimParams = t] : t \in TrimWindows}
    \cup {[PlainConfig EXCEPT !.cropParams = c, !.trimParams = t] :
             c \in {Rect(0, 0, 2, 2), Rect(2, 1, 3, 3)},
             t \in {Window(0, 10), Window(50, 10)}}

ExecBodies ==
    {b \in BodiesWith(ExecConfigs, {Undefined}) :
        ValidBody(b) /\ b.originalUrl = "u1"}

IntakeExec ==
    /\ published < MaxMessages
    /\ \E body \in ExecBodies : createAssetJob(body, TRUE)

ExecContentTypes ==
    {<<"image", "/", "png">>, <<"video", "/", "mp4">>,
     <<"application", "/", "pdf">>}

NextExec ==
    \/ IntakeExec
    \/ Deliver
    \/ \E d \in JobIds, ct \in ExecContentTypes : Classify(d, TRUE, ct)
    \/ \E d \in JobIds : LoggerFindOne(d, FALSE)
    \/ \E d \in JobIds : LoggerCreate(d, FALSE)
    \/ \E d \in JobIds : LoggerSave(d, FALSE)
    \/ \E d \in JobIds : LogPending(d, {})
    \/ \E d \in JobIds : Download(d, TRUE, {})
    \/ \E d \in JobIds, size \in AllSizes, probe \in Probes,
          outcome \in {"ok", "fail"} :
           Process(d, size, probe, outcome, TRUE, {})
    \/ \E d \in JobIds : ReadBack(d, TRUE)
    \/ \E d \in JobIds, respOk \in BOOLEAN : CheckExists(d, TRUE, respOk, {})
    \/ \E d \in JobIds : Upload(d, TRUE, TRUE, {})
    \/ \E d \in JobIds : Cleanup(d, "none")
    \/ \E d \in JobIds : Ack(d)
    \/ \E d \in JobIds : Nack(d)

SpecExec == Init /\ [][NextExec]_vars

----------------------------------------------------------------------------
(* Intake with bodies that carry extra fields, followed by an image job
   without store faults *)

\* Request bodies with and without a requestId field of the caller's
IntakeBodies == BodiesWith(Configs, {Undefined, "x1"})

IntakeAny ==
    /\ published < MaxMessages
    /\ \E body \in IntakeBodies, channelOk \in BOOLEAN :
           createAssetJob(body, channelOk)

NextIntake ==
    \/ IntakeAny
    \/ Deliver
    \/ \E d \in JobIds : Classify(d, TRUE, <<"image", "/", "png">>)
    \/ \E d \in JobIds : LoggerFindOne(d, FALSE)
    \/ \E d \in JobIds : LoggerCreate(d, FALSE)
    \/ \E d \in JobIds : LoggerSave(d, FALSE)
    \/ \E d \in JobIds : LogPending(d, {})
    \/ \E d \in JobIds, ok \in BOOLEAN : Download(d, ok, {})
    \/ \E d \in JobIds :
           Process(d, IMAGE_MIN_SIZE, ProbeFull, "ok", TRUE, {})
    \/ \E d \in JobIds : ReadBack(d, TRUE)
    \/ \E d \in JobIds, respOk \in BOOLEAN : CheckExists(d, TRUE, respOk, {})
    \/ \E d \in JobIds : Upload(d, TRUE, TRUE, {})
    \/ \E d \in JobIds : Cleanup(d, "none")
    \/ \E d \in JobIds : Ack(d)
    \/ \E d \in JobIds : Nack(d)

SpecIntake == Init /\ [][NextIntake]_vars

----------------------------------------------------------------------------
(* The event logger called directly, one call after the other *)

LogRequestIds == {"r1", "r2"}
LogOpenArgs == {[source |-> "cms", cfg |-> PlainConfig],
                [source |-> "app", cfg |-> NoConfig]}
LogStatuses == {"pending", "completed"}

\* await createLogger({ requestId, source, originalUrl, processingConfig })
OpenRequestLog(rid, source, url, cfg) ==
    /\ lastOp.calls < MaxLogCalls
    /\ docs' = CreateLogger(docs, rid, source, url, cfg)
    /\ lastOp' = [kind |-> "open", requestId |-> rid, originalUrl |-> url,
                  repeat |-> /\ FindOne(docs, url) # 0
                             /\ HasRequest(docs[FindOne(docs, url)], rid),
                  before |-> docs, calls |-> lastOp.calls + 1]
    /\ UNCHANGED <<queue, jobs, faults, response, published, delivered,
                   files, clock, rabbit>>

\* await logEvent({ status, message }) on the handle of (url, rid)
AppendEvent(rid, url, status) ==
    /\ lastOp.calls < MaxLogCalls
    /\ docs' = LogEventCurried(docs, url, rid, Event(status, "m"), FALSE).docs
    /\ lastOp' = [kind |-> "append", requestId |-> rid, originalUrl |-> url,
                  repeat |-> FALSE, before |-> docs,
                  calls |-> lastOp.calls + 1]
    /\ UNCHANGED <<queue, jobs, faults, response, published, delivered,
                   files, clock, rabbit>>

NextLog ==
    \/ \E rid \in LogRequestIds, url \in URLs, a \in LogOpenArgs :
           OpenRequestLog(rid, a.source, url, a.cfg)
    \/ \E rid \in LogRequestIds, url \in URLs, status \in LogStatuses :
           AppendEvent(rid, url, status)

SpecLog == Init /\ [][NextLog]_vars

----------------------------------------------------------------------------
(* Calls of connectRabbitMQ that overlap within one process *)

SpecConnect == Init /\ [][NextConnect]_vars

----------------------------------------------------------------------------
(* The combined server: intake and consumer in one process *)

\* Appends of one step that hit a failing store
IndexLoss == {{}, {1}}

NextIndex ==
    \/ Intake
    \/ Foreign
    \/ IndexDeliver
    \/ \E d \in JobIds, probeOk \in BOOLEAN, ct \in ContentTypes :
           IndexClassify(d, probeOk, ct)
    \/ \E d \in JobIds, storeFails \in BOOLEAN : LoggerFindOne(d, storeFails)
    \/ \E d \in JobIds, storeFails \in BOOLEAN : LoggerCreate(d, storeFails)
    \/ \E d \in JobIds, storeFails \in BOOLEAN : LoggerSave(d, storeFails)
    \/ \E d \in JobIds, lostIdx \in IndexLoss : IndexLogPending(d, lostIdx)
    \/ \E d \in JobIds, lostIdx \in IndexLoss, ok \in BOOLEAN :
           IndexDownload(d, ok, lostIdx)
    \/ \E d \in JobIds, lostIdx \in IndexLoss, size \in AllSizes,
          outcome \in ExecOutcomes, writeOk \in BOOLEAN :
           IndexProcess(d, size, ProbeFull, outcome, writeOk, lostIdx)
    \/ \E d \in JobIds, ok \in BOOLEAN : IndexReadBack(d, ok)
    \/ \E d \in JobIds, lostIdx \in IndexLoss, probeOk \in BOOLEAN,
          respOk \in BOOLEAN : IndexCheckExists(d, probeOk, respOk, lostIdx)
    \/ \E d \in JobIds, lostIdx \in IndexLoss, ok \in BOOLEAN,
          originalPresent \in BOOLEAN :
           IndexUpload(d, ok, originalPresent, lostIdx)
    \/ \E d \in JobIds, failure \in CleanupFailures : IndexCleanup(d, failure)
    \/ \E d \in JobIds : IndexAck(d)
    \/ \E d \in JobIds : IndexNack(d)

SpecIndex == Init /\ [][NextIndex]_vars

----------------------------------------------------------------------------
(* Properties *)

Last(seq) == seq[Len(seq)]

HasStatus(evs, status) == \E k \in 1..Len(evs) : evs[k].status = status

LastIs(evs, status, message) ==
    /\ evs # <<>>
    /\ Last(evs).status = status
    /\ Last(evs).message = message

LastStatusIs(evs, status) == evs # <<>> /\ Last(evs).status = status

\* The events stored in the entry that the handle of (url, rid) appends to
StoredEvents(url, rid) ==
    LET match(i) == docs[i].originalUrl = url /\ HasRequest(docs[i], rid)
    IN IF \E i \in 1..Len(docs) : match(i)
       THEN LET i == CHOOSE i \in 1..Len(docs) :
                         match(i) /\ \A j \in 1..(i - 1) : ~match(j)
                k == CHOOSE k \in 1..Len(docs[i].requests) :
                         /\ docs[i].requests[k].requestId = rid
                         /\ \A j \in 1..(k - 1) :
                                docs[i].requests[j].requestId # rid
            IN docs[i].requests[k].events
       ELSE <<>>

JobStored(d) ==
    StoredEvents(jobs[d].content.originalUrl, jobs[d].content.requestId)

Settled(d) == jobs[d].pc = "done"

Acknowledged(d) == Settled(d) /\ jobs[d].acks = 1 /\ jobs[d].nacks = 0

Rejected(d) == Settled(d) /\ jobs[d].nacks = 1 /\ jobs[d].acks = 0

\* C1: a job that fails at the download, process or upload step issues a
\* `failed` event as its last event (stored in its entry whenever the store
\* took the job's appends), is rejected with nack and never acknowledged,
\* and the rejection puts nothing back on the queue: every published
\* message is delivered at most once.
C1_FailedStepIsRejected ==
    /\ delivered + Len(queue) = published
    /\ \A d \in JobIds :
          jobs[d].failedAt \in {"download", "process", "upload"} =>
              /\ jobs[d].pc \in {"nack", "done"}
              /\ LastStatusIs(jobs[d].issued, "failed")
              /\ jobs[d].lost = 0 => LastStatusIs(JobStored(d), "failed")
              /\ jobs[d].acks = 0
              /\ Settled(d) => Rejected(d)

C1_Witness ==
    \E d \in JobIds :
        /\ jobs[d].failedAt = "download"
        /\ Rejected(d)
        /\ LastIs(JobStored(d), "failed", "Download failed")

\* C2: a message that fails to parse, or whose asset kind is unknown, is
\* rejected with nack and is not acknowledged.
C2_ParseFailureIsRejected ==
    \A d \in JobIds :
        (jobs[d].failedAt \in {"parse", "unknown"} /\ Settled(d)) =>
            (jobs[d].nacks = 1 /\ jobs[d].acks = 0)

\* C3: every settled job is either acknowledged after a `completed` event
\* or rejected after a `failed` event; no message is acknowledged without a
\* `completed` event.
C3_TerminalStates ==
    \A d \in JobIds :
        Settled(d) =>
            \/ Acknowledged(d) /\ HasStatus(jobs[d].issued, "completed")
            \/ Rejected(d) /\ HasStatus(jobs[d].issued, "failed")

\* C4: every failure before uploaded or skipped-deleted, the failure to
\* open the request log and the failure to read the artifact back
\* included, is followed by a `failed` event before the message is
\* rejected.
C4_EveryFailureLogsFailed ==
    \A d \in JobIds :
        (/\ jobs[d].failedAt \in {"open", "download", "process", "readback",
                                  "upload"}
         /\ jobs[d].pc \in {"nack", "done"}) =>
            LastStatusIs(jobs[d].issued, "failed")

\* C5: a PUT is issued only after the existence probe returned true; when
\* the probe returns false no PUT is issued, the job's last event is the
\* `completed` "Skipping final upload" event (stored whenever the store
\* took the job's appends) and the message is acknowledged.
C5_UploadOnlyIfExists ==
    \A d \in JobIds :
        /\ jobs[d].put.issued => jobs[d].probed = "true"
        /\ jobs[d].probed = "false" =>
              /\ ~jobs[d].put.issued
              /\ jobs[d].pc \in {"ack", "done"}
              /\ LastIs(jobs[d].issued, "completed",
                        "Original asset deleted by user. Skipping final upload.")
              /\ jobs[d].lost = 0 =>
                     LastIs(JobStored(d), "completed",
                            "Original asset deleted by user. Skipping final upload.")
              /\ Settled(d) => Acknowledged(d)

C5_Witness ==
    \E d \in JobIds :
        /\ jobs[d].probed = "false"
        /\ Acknowledged(d)
        /\ ~jobs[d].put.issued

\* C6: within one consumer at most one job is in flight at any time.
C6_OneJobInFlight == InFlight <= 1

\* The entries for (url, rid) over the whole collection
EntryCount(url, rid) ==
    Cardinality({ik \in UNION {{<<i, k>> : k \in 1..Len(docs[i].requests)} :
                               i \in 1..Len(docs)} :
                    /\ docs[ik[1]].originalUrl = url
                    /\ docs[ik[1]].requests[ik[2]].requestId = rid})

HasEntry(url, rid) == EntryCount(url, rid) > 0

\* C7: createLogger is idempotent on (originalUrl, requestId): after any
\* number of calls one after the other there is exactly one entry for the
\* keys of the call, and a call that finds the entry leaves the whole store,
\* the entry's source, processingConfig and events included, as it was.
C7_OpenIsIdempotent ==
    /\ \A url \in URLs, rid \in LogRequestIds : EntryCount(url, rid) <= 1
    /\ lastOp.kind = "open" =>
           EntryCount(lastOp.originalUrl, lastOp.requestId) = 1
    /\ (lastOp.kind = "open" /\ lastOp.repeat) => docs = lastOp.before

C7_Witness ==
    /\ lastOp.kind = "open"
    /\ lastOp.repeat
    /\ StoredEvents(lastOp.originalUrl, lastOp.requestId) # <<>>

\* C8: once the job of a payload answered `queued` has settled, the log
\* document of its originalUrl holds an entry with the returned requestId,
\* whatever the asset kind and the outcome of the job.
C8_EntryAppears ==
    (/\ response.code = 200
     /\ queue = <<>>
     /\ delivered = published
     /\ \A d \in JobIds : Settled(d)) =>
        HasEntry(response.originalUrl, response.requestId)

\* C9: an image job published from a payload without any option bag, whose
\* download, read-back, existence check and upload succeed, is encoded at
\* the uncompressed quality tier, uploaded, ends `completed` and is
\* acknowledged.
C9_PlainImageCompletes ==
    \A d \in JobIds :
        (/\ Settled(d)
         /\ jobs[d].content.tag = "json"
         /\ jobs[d].content.assetConfig = NoConfig
         /\ jobs[d].assetType = "image"
         /\ jobs[d].failedAt \notin {"parse", "open", "download", "readback",
                                     "upload"}
         /\ jobs[d].probed # "false") =>
            /\ Acknowledged(d)
            /\ jobs[d].artifact.quality = QUALITY_FULL
            /\ jobs[d].put.issued
            /\ LastStatusIs(jobs[d].issued, "completed")

ExpectedAck(d) == jobs[d].failedAt \in {"none", "parse", "unknown"}

\* C10: a failing event append never propagates.  No append raises, and
\* whether or not appends were lost the job is where the outcomes of its
\* steps put it: after each step the event just issued is the one of that
\* step, a job is acknowledged exactly when no step failed, and rejected
\* exactly when one did.
C10_AppendFailureIsSwallowed ==
    \A d \in JobIds :
        /\ ~jobs[d].threwFromAppend
        /\ jobs[d].pc = "download" =>
               LastIs(jobs[d].issued, "pending", "Processing started")
        /\ jobs[d].pc = "process" =>
               LastIs(jobs[d].issued, "processing", "File downloaded")
        /\ jobs[d].pc \in {"readFile", "exists", "upload"} =>
               LastIs(jobs[d].issued, "processing",
                      "Processing complete, uploading to DO Spaces")
        /\ jobs[d].pc = "cleanup" =>
               LastIs(jobs[d].issued, "completed", "Upload successful")
        /\ jobs[d].pc = "ack" => ExpectedAck(d)
        /\ jobs[d].pc = "nack" => ~ExpectedAck(d)
        /\ Settled(d) =>
               IF ExpectedAck(d) THEN Acknowledged(d) ELSE Rejected(d)

C10_Witness ==
    \E d \in JobIds :
        /\ jobs[d].lost > 0
        /\ jobs[d].failedAt = "none"
        /\ jobs[d].put.issued
        /\ Acknowledged(d)
        /\ ~HasStatus(JobStored(d), "completed")

\* C11: every job that reached uploaded (its PUT succeeded) or
\* skipped-deleted (the existence probe returned false) has attempted the
\* cleanup of its temporary files by the time its message is acknowledged.
C11_CleanupOnEveryPath ==
    \A d \in JobIds :
        (/\ jobs[d].pc \in {"ack", "done"}
         /\ \/ jobs[d].probed = "false"
            \/ jobs[d].put.issued /\ jobs[d].failedAt = "none") =>
            jobs[d].cleanup # "none"

\* C12: a failure during cleanup leaves the job on its way to the
\* acknowledgement: its last event stays `completed` (stored whenever the
\* store took the job's appends), no `failed` event is issued and the
\* message is acknowledged, never rejected.
C12_CleanupFailureIsSwallowed ==
    \A d \in JobIds :
        jobs[d].cleanup = "error" =>
            /\ jobs[d].pc \in {"ack", "done"}
            /\ LastIs(jobs[d].issued, "completed", "Upload successful")
            /\ ~HasStatus(jobs[d].issued, "failed")
            /\ jobs[d].lost = 0 => LastStatusIs(JobStored(d), "completed")
            /\ jobs[d].nacks = 0
            /\ Settled(d) => Acknowledged(d)

C12_Witness ==
    \E d \in JobIds :
        /\ jobs[d].cleanup = "error"
        /\ Acknowledged(d)
        /\ LastIs(JobStored(d), "completed", "Upload successful")

HasEvent(evs, status, message) ==
    \E k \in 1..Len(evs) : evs[k] = Event(status, message)

JobCfg(d) == jobs[d].content.assetConfig

\* The executor of job d ran with the codec itself working
EngineOk(d) == jobs[d].exec.ran /\ jobs[d].exec.outcome = "ok"

\* Compression was requested in the option bag of the job's kind
Requested(d) ==
    CASE jobs[d].assetType = "image" -> "imageProps" \in JobCfg(d).compress
      [] jobs[d].assetType = "video" -> "videoProps" \in JobCfg(d).compress
      [] jobs[d].assetType = "pdf" -> "pdfProps" \in JobCfg(d).compress
      [] OTHER -> FALSE

\* C13: when the Ghostscript pass of a pdf job fails, the artifact is the
\* uncompressed input, a `warning` is appended, no `failed` event is, and
\* the job goes on to upload or skip, `completed` and the acknowledgement;
\* when the image or video codec fails, the job's last event is `failed`
\* (Processing failed), nothing is uploaded and the message is rejected.
C13_ExecutorFailureAsymmetry ==
    \A d \in JobIds :
        /\ (/\ jobs[d].exec.ran
            /\ jobs[d].assetType = "pdf"
            /\ Requested(d)
            /\ jobs[d].exec.size > PDF_MIN_SIZE
            /\ jobs[d].exec.outcome = "fail") =>
               /\ jobs[d].failedAt = "none"
               /\ jobs[d].artifact.format = "pdf"
               /\ ~jobs[d].artifact.compressed
               /\ HasEvent(JobStored(d), "warning", "Error during PDF compression")
               /\ ~HasStatus(JobStored(d), "failed")
               /\ jobs[d].nacks = 0
               /\ Settled(d) =>
                      /\ Acknowledged(d)
                      /\ LastStatusIs(JobStored(d), "completed")
                      /\ jobs[d].put.issued \/ jobs[d].probed = "false"
        /\ (/\ jobs[d].exec.ran
            /\ jobs[d].assetType \in {"image", "video"}
            /\ jobs[d].exec.outcome = "fail") =>
               /\ jobs[d].failedAt = "process"
               /\ LastIs(JobStored(d), "failed", "Processing failed")
               /\ ~jobs[d].put.issued
               /\ jobs[d].acks = 0
               /\ Settled(d) => Rejected(d)

C13_Witness ==
    \E d \in JobIds :
        /\ jobs[d].assetType = "pdf"
        /\ Requested(d)
        /\ jobs[d].exec.size > PDF_MIN_SIZE
        /\ jobs[d].exec.outcome = "fail"
        /\ jobs[d].put.issued
        /\ Acknowledged(d)

\* The frame a crop leaves of an asset of the probed size
OutputFrame(codec, probe) ==
    IF codec.crop.given THEN codec.crop
    ELSE Rect(0, 0, probe.width, probe.height)

\* C14: with the codec working and the geometry and duration probed, a job
\* with a crop rectangle or trim window of any values does not fail in the
\* executor, and the codec is handed either exactly the requested
\* rectangle and window or none (for an image, the full frame).
C14_CropTrimNeverFailsJob ==
    \A d \in JobIds :
        (/\ EngineOk(d)
         /\ jobs[d].exec.probe = ProbeFull
         /\ jobs[d].assetType \in {"image", "video"}) =>
            /\ jobs[d].failedAt # "process"
            /\ JobCfg(d).cropParams.given =>
                   \/ jobs[d].exec.codec.crop = JobCfg(d).cropParams
                   \/ OutputFrame(jobs[d].exec.codec, ProbeFull)
                          = Rect(0, 0, ProbeFull.width, ProbeFull.height)
            /\ jobs[d].exec.codec.trim \in {JobCfg(d).trimParams, NoTrim}

\* C15: when the probe of an image or a video fails or yields no width,
\* height or duration, the requested crop or trim is skipped with a
\* `warning` event and the job does not fail in the executor.
C15_ProbeFailureSkipsTransform ==
    \A d \in JobIds :
        (/\ EngineOk(d)
         /\ jobs[d].exec.probe \in {ProbeRaises, ProbeEmpty}
         /\ \/ /\ jobs[d].assetType \in {"image", "video"}
               /\ JobCfg(d).cropParams.given
            \/ /\ jobs[d].assetType = "video"
               /\ JobCfg(d).trimParams.given) =>
            /\ jobs[d].failedAt # "process"
            /\ HasStatus(JobStored(d), "warning")
            /\ ~jobs[d].exec.codec.validCrop
            /\ ~jobs[d].exec.codec.validTrim

\* x >= 0, y >= 0, x + width <= W and y + height <= H
CropInside(c, W, H) ==
    c.x >= 0 /\ c.y >= 0 /\ c.x + c.width <= W /\ c.y + c.height <= H

FrameSizes == {<<4, 3>>, <<2, 2>>, <<3, 5>>}

\* C16: for every crop rectangle and every probed size, the image validator
\* and the video validator each accept the rectangle exactly when x >= 0,
\* y >= 0, x + width <= W and y + height <= H, and so agree; an executor
\* that ran with a probed size treats the rectangle as valid exactly then.
C16_CropValidatorsAgree ==
    /\ \A c \in CropRects, f \in FrameSizes :
          /\ ~imageCropRejected(c, f[1], f[2]) = CropInside(c, f[1], f[2])
          /\ ~videoCropRejected(c, f[1], f[2]) = CropInside(c, f[1], f[2])
    /\ \A d \in JobIds :
          (/\ jobs[d].exec.ran
           /\ jobs[d].exec.probe = ProbeFull
           /\ jobs[d].assetType \in {"image", "video"}
           /\ JobCfg(d).cropParams.given) =>
              jobs[d].exec.codec.validCrop
                  = CropInside(JobCfg(d).cropParams, ProbeFull.width,
                               ProbeFull.height)

C16_Witness ==
    \E d \in JobIds :
        /\ jobs[d].assetType = "video"
        /\ JobCfg(d).cropParams = Rect(2, 1, 2, 2)
        /\ jobs[d].exec.probe = ProbeFull
        /\ jobs[d].exec.codec.validCrop
        /\ jobs[d].exec.codec.crop = Rect(2, 1, 2, 2)
        /\ Acknowledged(d)

\* A rectangle that reaches past the right or the bottom edge
CropExceeds(c, W, H) == c.x + c.width > W \/ c.y + c.height > H

\* C17: with the codec working and the size probed, a crop rectangle that
\* reaches past the right or bottom edge gets a `warning` event, the image
\* executor extracts the full frame (0, 0, W, H), the video executor adds no
\* crop filter, the output frame is the one of the no-crop path and the job
\* does not fail in the executor.
C17_OversizedCropIsDropped ==
    \A d \in JobIds :
        (/\ EngineOk(d)
         /\ jobs[d].exec.probe = ProbeFull
         /\ jobs[d].assetType \in {"image", "video"}
         /\ JobCfg(d).cropParams.given
         /\ CropExceeds(JobCfg(d).cropParams, ProbeFull.width,
                        ProbeFull.height)) =>
            /\ jobs[d].failedAt # "process"
            /\ ~jobs[d].exec.codec.validCrop
            /\ jobs[d].assetType = "image" =>
                   /\ jobs[d].exec.codec.crop
                          = Rect(0, 0, ProbeFull.width, ProbeFull.height)
                   /\ HasEvent(JobStored(d), "warning",
                               "Crop parameters exceed image dimensions. Proceeding without cropping (using full image).")
            /\ jobs[d].assetType = "video" =>
                   /\ jobs[d].exec.codec.crop = NoCrop
                   /\ HasEvent(JobStored(d), "warning",
                               "Crop parameters exceed video dimensions. Proceeding without cropping (using full video).")
            /\ OutputFrame(jobs[d].exec.codec, ProbeFull)
                   = OutputFrame(NoCodec, ProbeFull)
            /\ jobs[d].pc # "process" /\ jobs[d].pc # "nack"

C17_Witness ==
    \E d \in JobIds :
        /\ jobs[d].assetType = "image"
        /\ JobCfg(d).cropParams = Rect(2, 1, 3, 3)
        /\ jobs[d].exec.probe = ProbeFull
        /\ jobs[d].exec.codec.crop = Rect(0, 0, 4, 3)
        /\ HasStatus(JobStored(d), "warning")
        /\ jobs[d].put.issued
        /\ Acknowledged(d)

\* C18: with the duration D probed, the trim of a video is applied exactly
\* when start >= 0, end <= D and start < end; otherwise a `warning` event
\* is appended, no start time or duration is set and the job does not fail
\* because of it.  In particular (50, 10) on 30 seconds is not applied.
C18_TrimValidation ==
    \A d \in JobIds :
        (/\ jobs[d].exec.ran
         /\ jobs[d].exec.probe = ProbeFull
         /\ jobs[d].assetType = "video"
         /\ JobCfg(d).trimParams.given) =>
            LET t == JobCfg(d).trimParams
                ok == t.start >= 0 /\ t.end <= ProbeFull.duration
                      /\ t.start < t.end
            IN /\ jobs[d].exec.codec.validTrim = ok
               /\ ok => jobs[d].exec.codec.trim = t
               /\ ~ok =>
                     /\ jobs[d].exec.codec.trim = NoTrim
                     /\ HasEvent(JobStored(d), "warning",
                                 "Trim parameters are invalid. Proceeding without trimming.")
                     /\ (EngineOk(d) /\ ~jobs[d].exec.codec.validCrop) =>
                            jobs[d].failedAt # "process"
               /\ t.start >= t.end => ~jobs[d].exec.codec.validTrim

C18_Witness ==
    \E d \in JobIds :
        /\ jobs[d].assetType = "video"
        /\ JobCfg(d).trimParams = Window(50, 10)
        /\ jobs[d].exec.probe = ProbeFull
        /\ jobs[d].exec.codec.trim = NoTrim
        /\ HasStatus(JobStored(d), "warning")
        /\ jobs[d].put.issued
        /\ Acknowledged(d)

Floor(d) ==
    CASE jobs[d].assetType = "image" -> IMAGE_MIN_SIZE
      [] jobs[d].assetType = "video" -> VIDEO_MIN_SIZE
      [] OTHER -> PDF_MIN_SIZE

\* C20: for every kind, when compression was requested and is skipped
\* because the input is not larger than the floor, the request's entry
\* holds a `warning` or `processing` event that records the skip.
C20_SkippedCompressionIsLogged ==
    \A d \in JobIds :
        (/\ jobs[d].exec.ran
         /\ jobs[d].failedAt # "process"
         /\ Requested(d)
         /\ jobs[d].exec.size <= Floor(d)) =>
            \/ HasEvent(JobStored(d), "processing",
                        "Skipping compression due to file size threshold.")
            \/ HasEvent(JobStored(d), "warning", "Skipping PDF compression.")

\* The first two tokens of a content type are the given type and a slash
BeginsWith(ct, type) == Len(ct) >= 2 /\ ct[1] = type /\ ct[2] = "/"

\* C21: classification never raises and is decided by the HEAD response
\* alone: `image` for a content type beginning with image/, `video` for
\* one beginning with video/, `pdf` for exactly application/pdf, `unknown`
\* for any other content type, a missing header and a failed probe.
C21_ClassifyIsTotal ==
    \A d \in JobIds :
        (jobs[d].pc # "getAssetType" /\ jobs[d].failedAt # "parse") =>
            LET h == jobs[d].head
            IN /\ jobs[d].assetType =
                      IF ~h.probeOk THEN "unknown"
                      ELSE IF BeginsWith(h.contentType, "image") THEN "image"
                      ELSE IF BeginsWith(h.contentType, "video") THEN "video"
                      ELSE IF h.contentType = <<"application", "/", "pdf">>
                      THEN "pdf"
                      ELSE "unknown"
               /\ jobs[d].assetType = "unknown" =>
                      /\ jobs[d].failedAt = "unknown"
                      /\ jobs[d].pc \in {"ack", "done"}
                      /\ jobs[d].issued = <<>>

C21_Witness ==
    \E d \in JobIds :
        /\ jobs[d].head = [probeOk |-> TRUE,
                           contentType |-> <<"application", "/", "pdf", ";">>]
        /\ jobs[d].assetType = "unknown"
        /\ Settled(d)

\* C22: a network error of the existence probe before the upload is
\* answered false and handled as a deleted asset: no PUT is issued, the
\* job's last event is the `completed` "Skipping final upload" event, no
\* `failed` event is issued and the message is acknowledged, never
\* rejected.
C22_ProbeErrorMeansGone ==
    \A d \in JobIds :
        jobs[d].probeError =>
            /\ jobs[d].probed = "false"
            /\ ~jobs[d].put.issued
            /\ jobs[d].failedAt = "none"
            /\ LastIs(jobs[d].issued, "completed",
                      "Original asset deleted by user. Skipping final upload.")
            /\ ~HasStatus(jobs[d].issued, "failed")
            /\ jobs[d].pc \in {"ack", "done"}
            /\ jobs[d].nacks = 0
            /\ Settled(d) => Acknowledged(d)

C22_Witness ==
    \E d \in JobIds :
        /\ jobs[d].probeError
        /\ Acknowledged(d)
        /\ LastIs(JobStored(d), "completed",
                  "Original asset deleted by user. Skipping final upload.")

\* C23: an intake request that lacks source, originalUrl or overwriteUrl is
\* answered 400 and publishes nothing; a complete request is answered 200
\* with exactly one message for its originalUrl added at the end of the
\* queue, or 500 with nothing published; the queue grows only together
\* with a 200 answer.
C23_IntakeOutcomes ==
    [][/\ response' # response =>
            /\ response'.code \in {200, 400, 500}
            /\ (response'.code = 400) = (response'.missing # {})
            /\ response'.code \in {400, 500} =>
                   /\ queue' = queue
                   /\ published' = published
                   /\ response'.requestId = Undefined
            /\ response'.code = 200 =>
                   /\ Len(queue') = Len(queue) + 1
                   /\ SubSeq(queue', 1, Len(queue)) = queue
                   /\ Last(queue').tag = "json"
                   /\ Last(queue').originalUrl = response'.originalUrl
                   /\ published' = published + 1
                   /\ response'.requestId # Undefined
       /\ Len(queue') > Len(queue) =>
            response' # response /\ response'.code = 200]_vars

C23_Witness ==
    /\ response.code = 200
    /\ published = 1
    /\ Len(queue) = 1
    /\ queue[1].originalUrl = response.originalUrl
    /\ ~Falsy(queue[1].source) /\ ~Falsy(queue[1].overwriteUrl)

\* C30: once a request was answered `queued`, the message it published,
\* the job made of that message and the Request Entry the worker creates
\* for it all carry the requestId of the answer, whatever other fields the
\* request body held.
C30_RequestIdIsReturned ==
    response.code = 200 =>
        /\ \A k \in 1..Len(queue) : queue[k].requestId = response.requestId
        /\ \A d \in JobIds : jobs[d].content.requestId = response.requestId
        /\ \A i \in 1..Len(docs) : \A k \in 1..Len(docs[i].requests) :
               docs[i].requests[k].requestId = response.requestId

\* C24: the log store never holds two documents for one originalUrl, also
\* when the createLogger calls of concurrent jobs interleave.
C24_OneDocumentPerUrl ==
    \A i, j \in 1..Len(docs) :
        docs[i].originalUrl = docs[j].originalUrl => i = j

C24_Witness ==
    \E d \in JobIds :
        /\ jobs[d].failedAt = "open"
        /\ Cardinality({i \in 1..Len(docs) :
               docs[i].originalUrl = jobs[d].content.originalUrl}) = 1
        /\ InFlight = 2

IsPrefix(a, b) == Len(a) <= Len(b) /\ SubSeq(b, 1, Len(a)) = a

\* Every document and entry of store a is in store b at the same place,
\* with the same keys and with its events as a prefix
StoreGrows(a, b) ==
    /\ Len(a) <= Len(b)
    /\ \A i \in 1..Len(a) :
          /\ b[i].originalUrl = a[i].originalUrl
          /\ Len(a[i].requests) <= Len(b[i].requests)
          /\ \A k \in 1..Len(a[i].requests) :
                /\ IsPrefix(a[i].requests[k].events, b[i].requests[k].events)
                /\ [b[i].requests[k] EXCEPT !.events = <<>>]
                       = [a[i].requests[k] EXCEPT !.events = <<>>]

\* C26: the log is append-only: every createLogger and every append leaves
\* each document and each entry in place, with an entry's events as a
\* prefix of what they are afterwards; new entries and events come at the
\* end.
C26_AppendOnly == [][StoreGrows(docs, docs')]_vars

C26_Witness ==
    /\ lastOp.kind = "open"
    /\ ~lastOp.repeat
    /\ \E i \in 1..Len(docs) :
          /\ docs[i].originalUrl = lastOp.originalUrl
          /\ Len(docs[i].requests) = 2
          /\ docs[i].requests[1].events # <<>>
          /\ docs[i].requests[2].requestId = lastOp.requestId

Pending == Event("pending", "Processing started")
Downloaded == Event("processing", "File downloaded")
Processed == Event("processing", "Processing complete, uploading to DO Spaces")

Terminal(ev) == ev.status \in {"completed", "failed"}

\* pending, File downloaded, executor events, Processing complete and the
\* terminal event, in this order; a terminal event ends the sequence.
EventOrder(evs) ==
    /\ \A k \in 1..Len(evs) :
          /\ (evs[k] = Pending) = (k = 1)
          /\ evs[k] = Downloaded => k = 2
          /\ Terminal(evs[k]) => k = Len(evs)
          /\ (k > 2 /\ evs[k] \notin {Processed} /\ ~Terminal(evs[k])) =>
                 /\ evs[2] = Downloaded
                 /\ \A j \in 1..k : evs[j] # Processed
          /\ evs[k] = Processed =>
                 /\ evs[2] = Downloaded
                 /\ \A j \in (k + 1)..Len(evs) : Terminal(evs[j])

\* The job went through every state up to the acknowledgement
PassedEveryState(d) ==
    /\ jobs[d].failedAt = "none"
    /\ jobs[d].assetType # "unknown"
    /\ jobs[d].exec.ran
    /\ jobs[d].artifact # NoArtifact
    /\ \/ jobs[d].probed = "true" /\ jobs[d].put.issued
       \/ jobs[d].probed = "false" /\ ~jobs[d].put.issued
    /\ jobs[d].cleanup # "none"

\* C27: a job goes through received, classified, logged-pending,
\* downloaded, processed, read-back, uploaded or skipped-deleted,
\* cleaned-up and acknowledged in this order, each only after the one
\* before succeeded: an acknowledged job went through every one of them,
\* its events are in the order of the steps, and a PUT is issued only after
\* download, processing and read-back succeeded.
C27_StatesInOrder ==
    \A d \in JobIds :
        /\ jobs[d].acks > 0 => PassedEveryState(d)
        /\ EventOrder(jobs[d].issued)
        /\ jobs[d].put.issued =>
               /\ jobs[d].exec.ran
               /\ jobs[d].artifact # NoArtifact
               /\ jobs[d].failedAt \in {"none", "upload"}
               /\ HasEvent(jobs[d].issued, "processing", "File downloaded")
               /\ HasEvent(jobs[d].issued, "processing",
                           "Processing complete, uploading to DO Spaces")

\* C28: a PUT to overwriteUrl is issued only while the original asset
\* exists: whenever the caller deleted the asset before the PUT, no PUT is
\* issued.
C28_NoPutOnDeletedAsset ==
    \A d \in JobIds : jobs[d].put.issued => jobs[d].put.originalPresent

\* C29: every delivery is settled exactly once: a settled delivery got
\* exactly one of channel.ack and channel.nack, whatever its content, and a
\* delivery still in the pipeline got neither.
C29_SettledExactlyOnce ==
    \A d \in JobIds :
        /\ Settled(d) => jobs[d].acks + jobs[d].nacks = 1
        /\ ~Settled(d) => jobs[d].acks + jobs[d].nacks = 0

C29_Witness ==
    \E d \in JobIds :
        /\ jobs[d].content \in {InvalidContent, NullContent}
        /\ Settled(d)
        /\ jobs[d].unhandled
        /\ jobs[d].acks = 1
        /\ jobs[d].nacks = 0

\* The job has its handle: createLogger returned
Opened(d) ==
    /\ jobs[d].failedAt \notin {"parse", "unknown", "open"}
    /\ jobs[d].pc \notin {"getAssetType", "findOne", "create", "save"}

\* C31: when the createLogger calls of two jobs with distinct requestIds
\* for one originalUrl interleave at findOne, create, push and save, neither
\* call raises and the document holds exactly one entry for each requestId.
C31_InterleavedOpensSucceed ==
    \A d \in JobIds :
        /\ jobs[d].failedAt # "open"
        /\ Opened(d) =>
               EntryCount(jobs[d].content.originalUrl,
                          jobs[d].content.requestId) = 1

Terminals(evs) == {k \in 1..Len(evs) : Terminal(evs[k])}

\* C32: one pass of processMessage appends at most one terminal event
\* (`completed` or `failed`) to the entry of the request, and no event of
\* any status after it.
C32_OneTerminalEvent ==
    \A d \in JobIds :
        /\ Cardinality(Terminals(jobs[d].issued)) <= 1
        /\ Terminals(jobs[d].issued) \subseteq {Len(jobs[d].issued)}
        /\ Cardinality(Terminals(JobStored(d))) <= 1
        /\ Terminals(JobStored(d)) \subseteq {Len(JobStored(d))}

C32_Witness ==
    \E d \in JobIds :
        /\ Settled(d)
        /\ jobs[d].failedAt = "upload"
        /\ jobs[d].lost = 0
        /\ Terminals(JobStored(d)) = {Len(JobStored(d))}
        /\ Len(JobStored(d)) >= 4

\* The option bag processAsset looks for
BagOf(assetType) ==
    CASE assetType = "image" -> "imageProps"
      [] assetType = "video" -> "videoProps"
      [] assetType = "pdf" -> "pdfProps"
      [] OTHER -> "none"

\* assetConfig is present and has no option bag for the kind of job d
NoBag(d) ==
    /\ jobs[d].exec.ran
    /\ JobCfg(d).present
    /\ BagOf(jobs[d].assetType) \notin JobCfg(d).bags

\* C33: a job whose assetConfig is present but has no option bag for the
\* classified kind calls no executor: processAsset raises 'Unsupported asset
\* type', the `failed` event 'Processing failed' is issued, nothing is
\* uploaded, and the message is rejected and not put back on the queue.
C33_MissingBagIsRejected ==
    \A d \in JobIds :
        NoBag(d) =>
            /\ jobs[d].exec.executor = "none"
            /\ jobs[d].exec.error = "Unsupported asset type"
            /\ jobs[d].failedAt = "process"
            /\ LastIs(jobs[d].issued, "failed", "Processing failed")
            /\ jobs[d].lost = 0 =>
                   LastIs(JobStored(d), "failed", "Processing failed")
            /\ jobs[d].artifact = NoArtifact
            /\ ~jobs[d].put.issued
            /\ jobs[d].acks = 0
            /\ Settled(d) => Rejected(d)
            /\ delivered + Len(queue) = published

C33_Witness ==
    \E d \in JobIds :
        /\ NoBag(d)
        /\ JobCfg(d).bags = {"videoProps"}
        /\ jobs[d].assetType = "image"
        /\ Rejected(d)

\* The media type of an artifact format
MediaType(format) ==
    CASE format = "webp" -> "image/webp"
      [] format = "mp4" -> "video/mp4"
      [] format = "pdf" -> "application/pdf"
      [] OTHER -> "application/octet-stream"

\* C37: for every asset kind the Content-Type header of the write-back PUT
\* names the format of the artifact the executor produced.
C37_ContentTypeNamesArtifact ==
    \A d \in JobIds :
        jobs[d].put.issued =>
            jobs[d].put.contentType = MediaType(jobs[d].artifact.format)

\* C38: every crop rectangle handed to the codec (image extract or video
\* crop filter) has a positive width and height and lies inside the frame;
\* a requested rectangle with a width or height of zero or less, and the
\* full-frame substitute of a 0 x 0 probe, are never handed to the codec.
C38_CodecRectIsValid ==
    \A d \in JobIds :
        (jobs[d].exec.ran /\ jobs[d].exec.codec.crop.given) =>
            /\ jobs[d].exec.codec.crop.width > 0
            /\ jobs[d].exec.codec.crop.height > 0
            /\ CropInside(jobs[d].exec.codec.crop, jobs[d].exec.probe.width,
                          jobs[d].exec.probe.height)

\* C34: two jobs in flight at the same time use distinct temporary input
\* paths and distinct processed-output paths, so that neither reads,
\* overwrites or deletes a file of the other.
C34_TempPathsAreDistinct ==
    \A d, e \in JobIds :
        (d # e /\ ~Settled(d) /\ ~Settled(e)) =>
            /\ jobs[d].inputPath # NoPath =>
                   jobs[d].inputPath # jobs[e].inputPath
            /\ jobs[d].processedPath # NoPath =>
                   jobs[d].processedPath # jobs[e].processedPath

\* C35: once a job whose download was written is rejected (processing,
\* read-back or upload failed), its temporary input file and the processed
\* file it created are no longer on the disk.
C35_NoTempFileAfterRejection ==
    \A d \in JobIds :
        (Rejected(d) /\ jobs[d].failedAt \in {"process", "readback", "upload"})
            => /\ jobs[d].inputPath \notin files
               /\ jobs[d].processedPath \notin files

\* The callers connectRabbitMQ has answered
Returned == {c \in Callers : rabbit.calls[c].pc = "returned"}

\* C36: connectRabbitMQ is memoized: whatever calls are made within one
\* process, overlapping ones included, at most one connection and one
\* channel are created and every caller receives the same channel.
C36_ConnectIsMemoized ==
    /\ rabbit.connections <= 1
    /\ rabbit.channels <= 1
    /\ \A c, e \in Returned : rabbit.calls[c].got = rabbit.calls[e].got

\* Every step of the one orchestrator is, on the same inputs, the same
\* step of the other: the events, the PUT, the files and the settlement
\* are part of the state the steps lead to.
StepsAgree ==
    /\ Deliver <=> IndexDeliver
    /\ \A d \in 1..Len(jobs) :
        /\ \A probeOk \in BOOLEAN, ct \in ContentTypes :
               Classify(d, probeOk, ct) <=> IndexClassify(d, probeOk, ct)
        /\ \A lostIdx \in IndexLoss :
               LogPending(d, lostIdx) <=> IndexLogPending(d, lostIdx)
        /\ \A lostIdx \in IndexLoss, ok \in BOOLEAN :
               Download(d, ok, lostIdx) <=> IndexDownload(d, ok, lostIdx)
        /\ \A lostIdx \in IndexLoss, size \in AllSizes,
              outcome \in ExecOutcomes, writeOk \in BOOLEAN :
               Process(d, size, ProbeFull, outcome, writeOk, lostIdx)
                   <=> IndexProcess(d, size, ProbeFull, outcome, writeOk,
                                    lostIdx)
        /\ \A ok \in BOOLEAN : ReadBack(d, ok) <=> IndexReadBack(d, ok)
        /\ \A lostIdx \in IndexLoss, probeOk \in BOOLEAN, respOk \in BOOLEAN :
               CheckExists(d, probeOk, respOk, lostIdx)
                   <=> IndexCheckExists(d, probeOk, respOk, lostIdx)
        /\ \A lostIdx \in IndexLoss, ok \in BOOLEAN,
              originalPresent \in BOOLEAN :
               Upload(d, ok, originalPresent, lostIdx)
                   <=> IndexUpload(d, ok, originalPresent, lostIdx)
        /\ \A failure \in CleanupFailures :
               Cleanup(d, failure) <=> IndexCleanup(d, failure)
        /\ Ack(d) <=> IndexAck(d)
        /\ Nack(d) <=> IndexNack(d)

\* A step one orchestrator can take on some inputs, the other can take on
\* the same inputs.
EnabledAgree ==
    /\ (ENABLED Deliver) <=> (ENABLED IndexDeliver)
    /\ \A d \in 1..Len(jobs) :
        /\ \A probeOk \in BOOLEAN, ct \in ContentTypes :
               (ENABLED Classify(d, probeOk, ct))
                   <=> (ENABLED IndexClassify(d, probeOk, ct))
        /\ \A lostIdx \in IndexLoss :
               (ENABLED LogPending(d, lostIdx))
                   <=> (ENABLED IndexLogPending(d, lostIdx))
        /\ \A lostIdx \in IndexLoss, ok \in BOOLEAN :
               (ENABLED Download(d, ok, lostIdx))
                   <=> (ENABLED IndexDownload(d, ok, lostIdx))
        /\ \A lostIdx \in IndexLoss, size \in AllSizes,
              outcome \in ExecOutcomes, writeOk \in BOOLEAN :
               (ENABLED Process(d, size, ProbeFull, outcome, writeOk, lostIdx))
                   <=> (ENABLED IndexProcess(d, size, ProbeFull, outcome,
                                             writeOk, lostIdx))
        /\ \A ok \in BOOLEAN :
               (ENABLED ReadBack(d, ok)) <=> (ENABLED IndexReadBack(d, ok))
        /\ \A lostIdx \in IndexLoss, probeOk \in BOOLEAN, respOk \in BOOLEAN :
               (ENABLED CheckExists(d, probeOk, respOk, lostIdx))
                   <=> (ENABLED IndexCheckExists(d, probeOk, respOk, lostIdx))
        /\ \A lostIdx \in IndexLoss, ok \in BOOLEAN,
              originalPresent \in BOOLEAN :
               (ENABLED Upload(d, ok, originalPresent, lostIdx))
                   <=> (ENABLED IndexUpload(d, ok, originalPresent, lostIdx))
        /\ \A failure \in CleanupFailures :
               (ENABLED Cleanup(d, failure))
                   <=> (ENABLED IndexCleanup(d, failure))
        /\ (ENABLED Ack(d)) <=> (ENABLED IndexAck(d))
        /\ (ENABLED Nack(d)) <=> (ENABLED IndexNack(d))

\* C39: the orchestrator of the standalone worker and that of the combined
\* server are observationally equivalent: for every message content and
\* every outcome of the external steps they issue the same log events, make
\* the same upload decision, clean up the same files and settle the message
\* the same way.
C39_OrchestratorsAgree == []EnabledAgree /\ [][StepsAgree]_vars

C39_Witness ==
    \E d \in JobIds :
        /\ Settled(d)
        /\ jobs[d].put.issued
        /\ jobs[d].cleanup = "done"
        /\ jobs[d].acks = 1
        /\ files = {}

====
